---- MODULE Spec2Model ----
(***************************************************************************)
(* A model of the PyTorch documentation search tool (package ptsearch):    *)
(*   - EmbeddingGenerator (embedding.py): the file-backed embedding cache  *)
(*     with its size management, and single / batched embedding            *)
(*     generation with the zero-vector fallback;                           *)
(*   - DocumentProcessor (document.py): section parsing and chunking.      *)
(* Each subsystem has its own specification (SpecEmbed, SpecChunk); the    *)
(* variables of the other subsystem stay at their initial values.          *)
(* SpecDir is process_directory, one step per file.                        *)
(*   - SearchEngine (search.py) with DatabaseManager.query (database.py)   *)
(*     and ResultFormatter (formatter.py): SpecSearch.  Scores are held    *)
(*     in thousandths, so that 1 - distance and the 1.2 boost are exact.   *)
(*                                                                         *)
(* Not modelled, because nothing the model observes depends on them: the   *)
(* hit/miss counters (self.stats), logging, and the "model" and            *)
(* "timestamp" fields of a cache file.  Time is logical: every file        *)
(* operation happens later than every access time on record, and between   *)
(* calls the access times are renumbered 1..n in the same order (the code  *)
(* only ever sorts by them).  In SpecEmbed file operations succeed; in     *)
(* SpecFault a cache file can become unreadable (reading it raises) or     *)
(* locked (writing and removing it raise).                                 *)
(***************************************************************************)
EXTENDS Integers, Sequences, FiniteSets, TLC

VARIABLES
    \* ---- EmbeddingGenerator ----
    use_cache,      \* self.use_cache
    files,          \* the cache directory: path -> [data, size, atime]
    runs,           \* history: the _manage_cache_size runs of the last call, each with
                    \* the files it removed, the files it kept and the size it left
    put_log,        \* history: text -> the vector last saved for it and not evicted since
    call,           \* the last public call: its arguments, observations and result
    \* ---- DocumentProcessor ----
    chunk_size,     \* self.chunk_size
    overlap,        \* self.overlap
    doc,            \* the file handed to process_file
    chunks,         \* the chunks process_file returned
    pc,             \* "start" before process_file has run, "done" after
    \* ---- DocumentProcessor.process_directory ----
    all_files,      \* the files glob found, in order, each with the fault it meets
    output_file,    \* the output_file argument: "none", "ok" or "unwritable"
    all_chunks,     \* the chunks gathered so far
    next_file,      \* position of the loop over all_files
    dir_pc,         \* "loop", then "returned" or "raised"
    \* ---- SearchEngine ----
    request,        \* the arguments of the call and the state of its collaborators
    intent,         \* what _is_code_query returned
    formatted,      \* the results format_results produced, before ranking
    response,       \* what search returned
    search_pc,      \* "start", then "searched" or "classified"
    \* ---- DocumentProcessor._character_chunk, one iteration at a time ----
    loop_text,      \* the text argument
    loop_start,     \* start
    loop_end,       \* end of the last window
    loop_chunk_num, \* chunk_num
    loop_chunks,    \* the chunks appended so far
    loop_pc         \* "loop", then "done"

embed_vars == <<use_cache, files, runs, put_log, call>>
chunk_vars == <<chunk_size, overlap, doc, chunks, pc>>
dir_vars == <<all_files, output_file, all_chunks, next_file, dir_pc>>
search_vars == <<request, intent, formatted, response, search_pc>>
loop_vars == <<loop_text, loop_start, loop_end, loop_chunk_num, loop_chunks, loop_pc>>
vars == <<embed_vars, chunk_vars, dir_vars, search_vars, loop_vars>>

(***************************************************************************)
(* Bounds of the model                                                     *)
(***************************************************************************)
\* The declared output dimension (3072 in config.py), scaled down.
EMBEDDING_DIMENSIONS == 2
\* The cache ceiling max_size_bytes (1 GiB in config.py), scaled down so that
\* two or three entries exceed it.
MaxCacheBytes == 8
\* Longest input list of generate_embeddings.
MaxTexts == 3

(***************************************************************************)
(* Generic helpers                                                         *)
(***************************************************************************)
\* Python's None.  Every embedding of the model has EMBEDDING_DIMENSIONS >= 1
\* components, so the empty tuple is free to stand for None.
None == <<>>

Min(a, b) == IF a < b THEN a ELSE b
Max(a, b) == IF a > b THEN a ELSE b

\* seq[a:b] of Python, for 0 <= a and 0 <= b (0-based, end exclusive).
Slice(seq, a, b) == SubSeq(seq, a + 1, Min(b, Len(seq)))

RECURSIVE SumSizes(_, _)
SumSizes(fs, paths) ==
    IF paths = {} THEN 0
    ELSE LET p == CHOOSE q \in paths : TRUE
         IN  fs[p].size + SumSizes(fs, paths \ {p})

(***************************************************************************)
(* EmbeddingGenerator: inputs                                              *)
(***************************************************************************)
Texts == { <<"a">>, <<"b", "b">>, <<"c", "c", "c">> }

ZeroVector == [k \in 1..EMBEDDING_DIMENSIONS |-> 0]

\* Vectors a caller may hand to _save_to_cache directly.
PutVectors == { [k \in 1..EMBEDDING_DIMENSIONS |-> 7], [k \in 1..EMBEDDING_DIMENSIONS |-> 8] }

\* The embedding backend (client.embeddings.create): an opaque function of the
\* text with the declared dimension; distinct texts of the model get distinct
\* non-zero vectors.
BackendEmbedding(text) == [k \in 1..EMBEDDING_DIMENSIONS |-> Len(text)]

TextLists == UNION { [1..n -> Texts] : n \in 1..MaxTexts }

(***************************************************************************)
(* The cache (embedding.py 212-292)                                        *)
(***************************************************************************)
PREVIEW_LEN == 100

\* Mutant: the hash ignores the text, so every text maps to one file.
_get_cache_path_constant(text) == <<"sha256", <<>>>>

\* sha256 of the text, taken to be collision-free: the path determines the text.
_get_cache_path(text) == <<"sha256", text>>

\* if cached_embedding: -- None and the empty list are both falsy.
Truthy(v) == v # None /\ v # <<>>

\* The value _get_from_cache returns: data.get("embedding"), or None if the
\* file does not exist or reading it raises (222-229).
_get_from_cache(fs, text) ==
    LET cache_path == _get_cache_path(text)
    IN  IF cache_path \in DOMAIN fs /\ fs[cache_path].readable
        THEN fs[cache_path].data.embedding
        ELSE None

\* The effect of that read on the file: the storage medium may record the
\* access (strictatime) or not (noatime, relatime).
TouchRead(fs, text, now, touch) ==
    LET cache_path == _get_cache_path(text)
    IN  IF cache_path \in DOMAIN fs /\ touch
        THEN [fs EXCEPT ![cache_path].atime = now]
        ELSE fs

\* The json document _save_to_cache writes, and the size of the file.
CacheData(text, embedding) ==
    [ text_preview |-> IF Len(text) > PREVIEW_LEN
                       THEN Slice(text, 0, PREVIEW_LEN) \o <<".", ".", ".">>
                       ELSE text,
      embedding |-> embedding ]

\* The characters json.dump writes for a number, and for a list of numbers.
RECURSIVE NumberWidth(_)
NumberWidth(n) == IF n < 10 THEN 1 ELSE 1 + NumberWidth(n \div 10)

RECURSIVE EmbeddingWidth(_)
EmbeddingWidth(embedding) ==
    IF embedding = <<>> THEN 0
    ELSE NumberWidth(Head(embedding)) + EmbeddingWidth(Tail(embedding))

\* st_size of the file json.dump wrote: it grows with the text preview and
\* with the digits of the vector.
FileSize(data) == Len(data.text_preview) + EmbeddingWidth(data.embedding)

\* Mutant: sorted newest first (reverse=True).
RECURSIVE SortByAccessNewestFirst(_, _)
SortByAccessNewestFirst(fs, paths) ==
    IF paths = {} THEN <<>>
    ELSE LET p == CHOOSE q \in paths : \A r \in paths : fs[q].atime >= fs[r].atime
         IN  <<p>> \o SortByAccessNewestFirst(fs, paths \ {p})

\* cache_files.sort(key=last_access): oldest first.
RECURSIVE SortByAccess(_, _)
SortByAccess(fs, paths) ==
    IF paths = {} THEN <<>>
    ELSE LET p == CHOOSE q \in paths : \A r \in paths : fs[q].atime <= fs[r].atime
         IN  <<p>> \o SortByAccess(fs, paths \ {p})

\* Mutant: the loop stops as soon as anything has been removed.
RECURSIVE RemoveOldestOnce(_, _, _, _, _, _)
RemoveOldestOnce(fs, sorted, k, bytes_removed, bytes_to_remove, gone) ==
    IF k > Len(sorted) \/ bytes_removed > 0
    THEN [files |-> fs, removed |-> gone]
    ELSE LET p == sorted[k]
         IN  IF fs[p].locked
             THEN RemoveOldestOnce(fs, sorted, k + 1, bytes_removed, bytes_to_remove, gone)
             ELSE
             RemoveOldestOnce([q \in DOMAIN fs \ {p} |-> fs[q]], sorted, k + 1,
                              bytes_removed + fs[p].size, bytes_to_remove,
                              gone \cup {[path |-> p, atime |-> fs[p].atime]})

\* for file_info in cache_files: stop once enough bytes are removed; a file
\* os.remove cannot delete is passed over (285-290).
RECURSIVE RemoveOldest(_, _, _, _, _, _)
RemoveOldest(fs, sorted, k, bytes_removed, bytes_to_remove, gone) ==
    IF k > Len(sorted) \/ bytes_removed >= bytes_to_remove
    THEN [files |-> fs, removed |-> gone]
    ELSE LET p == sorted[k]
         IN  IF fs[p].locked
             THEN RemoveOldest(fs, sorted, k + 1, bytes_removed, bytes_to_remove, gone)
             ELSE
             RemoveOldest([q \in DOMAIN fs \ {p} |-> fs[q]], sorted, k + 1,
                          bytes_removed + fs[p].size, bytes_to_remove,
                          gone \cup {[path |-> p, atime |-> fs[p].atime]})

_manage_cache_size(fs) ==
    LET max_size_bytes == MaxCacheBytes
        total_size == SumSizes(fs, DOMAIN fs)
    IN  IF total_size > max_size_bytes
        THEN RemoveOldest(fs, SortByAccess(fs, DOMAIN fs), 1, 0,
                          total_size - max_size_bytes, {})
        ELSE [files |-> fs, removed |-> {}]

\* The part of the state the cache operations thread through, at the start
\* of a call.
CacheState == [files |-> files, runs |-> <<>>, put_log |-> put_log]

\* The time of the next file operation: later than every access on record.
RECURSIVE MaxAtime(_, _)
MaxAtime(fs, paths) ==
    IF paths = {} THEN 0
    ELSE LET p == CHOOSE q \in paths : TRUE
         IN  Max(fs[p].atime, MaxAtime(fs, paths \ {p}))

Now(fs) == MaxAtime(fs, DOMAIN fs) + 1

\* Between calls: access times renumbered 1..n, order kept.
Renumber(fs) ==
    [p \in DOMAIN fs |->
        [fs[p] EXCEPT !.atime = Cardinality({ q \in DOMAIN fs : fs[q].atime <= fs[p].atime })]]

\* _save_to_cache: write the file (creating it, or truncating it, which may
\* or may not count as an access), then manage the cache size.  If the file
\* cannot be opened for writing the handler (246-247) leaves all as it was.
_save_to_cache(st, text, embedding, touch) ==
    LET cache_path == _get_cache_path(text)
        now == Now(st.files)
        data == CacheData(text, embedding)
        atime == IF cache_path \in DOMAIN st.files /\ ~touch
                 THEN st.files[cache_path].atime ELSE now
        entry == [data |-> data, size |-> FileSize(data), atime |-> atime,
                  readable |-> TRUE, locked |-> FALSE]
        written == [q \in DOMAIN st.files \cup {cache_path} |->
                        IF q = cache_path THEN entry ELSE st.files[q]]
        managed == _manage_cache_size(written)
        gone == { r.path : r \in managed.removed }
    IN  IF cache_path \in DOMAIN st.files /\ st.files[cache_path].locked THEN st ELSE
        [ files |-> managed.files,
          runs |-> Append(st.runs,
                          [ gone |-> managed.removed,
                            kept |-> { [path |-> q, atime |-> managed.files[q].atime] :
                                       q \in DOMAIN managed.files },
                            total |-> SumSizes(managed.files, DOMAIN managed.files) ]),
          put_log |-> [t \in Texts |->
                          IF _get_cache_path(t) \in gone THEN None
                          ELSE IF t = text THEN embedding
                          ELSE st.put_log[t]] ]

\* The read of _get_from_cache as a step on the cache state.
ReadFile(st, text, touch) ==
    [st EXCEPT !.files = TouchRead(st.files, text, Now(st.files), touch)]

(***************************************************************************)
(* generate_embedding (embedding.py 66-93)                                 *)
(***************************************************************************)
\* Returns the new cache state and the returned vector.
\* ok: whether the backend call succeeds.
\* Mutant: the fallback vector is cached like a fresh one.
generate_embedding_caching_fallback(st, text, ok, touch) ==
    LET cached_embedding == IF use_cache THEN _get_from_cache(st.files, text) ELSE None
        read == IF use_cache THEN ReadFile(st, text, touch) ELSE st
        embedding == IF ok THEN BackendEmbedding(text) ELSE ZeroVector
    IN  IF use_cache /\ Truthy(cached_embedding)
        THEN [st |-> read, result |-> cached_embedding]
        ELSE [st |-> IF use_cache THEN _save_to_cache(read, text, embedding, touch) ELSE read,
              result |-> embedding]

generate_embedding(st, text, ok, touch) ==
    LET cached_embedding == IF use_cache THEN _get_from_cache(st.files, text) ELSE None
        read == IF use_cache THEN ReadFile(st, text, touch) ELSE st
    IN  IF use_cache /\ Truthy(cached_embedding)
        THEN [st |-> read, result |-> cached_embedding]
        ELSE IF ok
             THEN LET embedding == BackendEmbedding(text)
                  IN  [st |-> IF use_cache
                              THEN _save_to_cache(read, text, embedding, touch)
                              ELSE read,
                       result |-> embedding]
             ELSE [st |-> read, result |-> ZeroVector]

(***************************************************************************)
(* generate_embeddings (embedding.py 95-163)                               *)
(***************************************************************************)
\* The reads of the cache look-up loop (109-117), in batch order.
RECURSIVE TouchReads(_, _, _, _)
TouchReads(st, batch_texts, j, touch) ==
    IF j > Len(batch_texts) THEN st
    ELSE TouchReads(ReadFile(st, batch_texts[j], touch), batch_texts, j + 1, touch)

\* for text, embedding in zip(uncached_texts, api_embeddings): _save_to_cache
RECURSIVE SaveAll(_, _, _, _, _)
SaveAll(st, uncached_texts, api_embeddings, k, touch) ==
    IF k > Len(uncached_texts) THEN st
    ELSE SaveAll(_save_to_cache(st, uncached_texts[k], api_embeddings[k], touch),
                 uncached_texts, api_embeddings, k + 1, touch)

\* while len(batch_embeddings) <= idx: append(None); batch_embeddings[idx] = embedding
Place(batch_embeddings, idx, embedding) ==
    LET padded == IF Len(batch_embeddings) <= idx
                  THEN batch_embeddings \o [k \in 1..(idx + 1 - Len(batch_embeddings)) |-> None]
                  ELSE batch_embeddings
    IN  [padded EXCEPT ![idx + 1] = embedding]

\* for idx, embedding in zip(uncached_indices, embeddings): place
RECURSIVE PlaceAll(_, _, _, _)
PlaceAll(batch_embeddings, uncached_indices, embeddings, k) ==
    IF k > Len(uncached_indices) THEN batch_embeddings
    ELSE PlaceAll(Place(batch_embeddings, uncached_indices[k], embeddings[k]),
                  uncached_indices, embeddings, k + 1)

\* "Ensure all positions have embeddings" (153-155): j counts from 0.
RECURSIVE EnsureAll(_, _, _)
EnsureAll(batch_embeddings, j, n) ==
    IF j >= n THEN batch_embeddings
    ELSE IF j >= Len(batch_embeddings) \/ batch_embeddings[j + 1] = None
         THEN EnsureAll(Append(batch_embeddings, ZeroVector), j + 1, n)
         ELSE EnsureAll(batch_embeddings, j + 1, n)

\* Mutant: the backend is called with the whole batch, cached texts included.
ProcessBatchWholeBatch(run, texts, batch_size, i, ok, touch) ==
    LET batch_texts == Slice(texts, i, i + batch_size)
        n == Len(batch_texts)
        found == [j \in 1..n |->
                    IF use_cache THEN _get_from_cache(run.st.files, batch_texts[j]) ELSE None]
        api_embeddings == [k \in 1..n |-> IF ok THEN BackendEmbedding(batch_texts[k]) ELSE ZeroVector]
    IN  [ st |-> run.st,
          all_embeddings |-> run.all_embeddings \o api_embeddings,
          lookups |-> run.lookups \o found,
          trace |-> run.trace
                    \o <<[ev |-> "backend", batch |-> i, input |-> batch_texts, ok |-> ok]>>
                    \o (IF i + batch_size < Len(texts)
                        THEN <<[ev |-> "sleep", batch |-> i, input |-> <<>>, ok |-> TRUE]>>
                        ELSE <<>>) ]

\* One iteration of the batch loop (101-161), for the batch that starts at
\* offset i.  run = [st, all_embeddings, lookups, trace].
ProcessBatch(run, texts, batch_size, i, ok, touch) ==
    LET batch_texts == Slice(texts, i, i + batch_size)
        n == Len(batch_texts)
        found == [j \in 1..n |->
                    IF use_cache THEN _get_from_cache(run.st.files, batch_texts[j]) ELSE None]
        looked == IF use_cache THEN TouchReads(run.st, batch_texts, 1, touch) ELSE run.st
        positions == [j \in 1..n |-> j - 1]
        cached_indices == SelectSeq(positions, LAMBDA j : Truthy(found[j + 1]))
        uncached_indices == SelectSeq(positions, LAMBDA j : ~Truthy(found[j + 1]))
        uncached_texts == [k \in 1..Len(uncached_indices) |-> batch_texts[uncached_indices[k] + 1]]
        from_cache == [k \in 1..Len(cached_indices) |-> found[cached_indices[k] + 1]]
        api_embeddings == [k \in 1..Len(uncached_texts) |-> BackendEmbedding(uncached_texts[k])]
        zeros == [k \in 1..Len(uncached_texts) |-> ZeroVector]
        saved == IF uncached_texts # <<>> /\ ok /\ use_cache
                 THEN SaveAll(looked, uncached_texts, api_embeddings, 1, touch)
                 ELSE looked
        placed == IF uncached_texts = <<>> THEN from_cache
                  ELSE IF ok THEN PlaceAll(from_cache, uncached_indices, api_embeddings, 1)
                  ELSE PlaceAll(from_cache, uncached_indices, zeros, 1)
        batch_embeddings == EnsureAll(placed, 0, n)
        called == IF uncached_texts # <<>>
                  THEN <<[ev |-> "backend", batch |-> i, input |-> uncached_texts, ok |-> ok]>>
                  ELSE <<>>
        slept == IF i + batch_size < Len(texts)
                 THEN <<[ev |-> "sleep", batch |-> i, input |-> <<>>, ok |-> TRUE]>>
                 ELSE <<>>
    IN  [ st |-> saved,
          all_embeddings |-> run.all_embeddings \o Slice(batch_embeddings, 0, n),
          lookups |-> run.lookups \o found,
          trace |-> run.trace \o called \o slept ]

\* for i in range(0, len(texts), batch_size); outcome[b] tells whether the
\* backend call of the b-th batch succeeds.
RECURSIVE BatchLoopNoPause(_, _, _, _, _, _)
\* Mutant: the loop never pauses between batches.
BatchLoopNoPause(run, texts, batch_size, i, outcome, touch) ==
    IF i >= Len(texts) THEN run
    ELSE LET r == ProcessBatch(run, texts, batch_size, i, outcome[(i \div batch_size) + 1], touch)
         IN  BatchLoopNoPause([r EXCEPT !.trace = SelectSeq(@, LAMBDA e : e.ev # "sleep")],
                              texts, batch_size, i + batch_size, outcome, touch)

RECURSIVE BatchLoop(_, _, _, _, _, _)
BatchLoop(run, texts, batch_size, i, outcome, touch) ==
    IF i >= Len(texts) THEN run
    ELSE BatchLoop(ProcessBatch(run, texts, batch_size, i, outcome[(i \div batch_size) + 1], touch),
                   texts, batch_size, i + batch_size, outcome, touch)

generate_embeddings(st, texts, batch_size, outcome, touch) ==
    BatchLoop([st |-> st, all_embeddings |-> <<>>, lookups |-> <<>>, trace |-> <<>>],
              texts, batch_size, 0, outcome, touch)

NumBatches(texts, batch_size) == (Len(texts) + batch_size - 1) \div batch_size

(***************************************************************************)
(* EmbeddingGenerator: the state machine                                   *)
(***************************************************************************)
BatchSizes == {2, 3}

NoCall == [op |-> "none", texts |-> <<>>, batch_size |-> 0, outcome |-> <<>>,
           lookups |-> <<>>, result |-> <<>>, trace |-> <<>>]

\* The state after construction: a fresh cache directory.
EmbedStart ==
    /\ files = <<>>
    /\ runs = <<>>
    /\ put_log = [t \in Texts |-> None]
    /\ call = NoCall

ChunkIdle ==
    /\ chunk_size = 0
    /\ overlap = 0
    /\ doc = <<>>
    /\ chunks = <<>>
    /\ pc = "idle"

DirIdle ==
    /\ all_files = <<>>
    /\ output_file = "none"
    /\ all_chunks = <<>>
    /\ next_file = 0
    /\ dir_pc = "idle"

SearchIdle ==
    /\ request = <<>>
    /\ intent = <<>>
    /\ formatted = <<>>
    /\ response = <<>>
    /\ search_pc = "idle"

LoopIdle ==
    /\ loop_text = <<>>
    /\ loop_start = 0
    /\ loop_end = 0
    /\ loop_chunk_num = 0
    /\ loop_chunks = <<>>
    /\ loop_pc = "idle"

EmbedInit ==
    /\ use_cache \in BOOLEAN
    /\ EmbedStart
    /\ ChunkIdle
    /\ DirIdle
    /\ SearchIdle
    /\ LoopIdle

Commit(st) ==
    /\ files' = st.files
    /\ runs' = st.runs
    /\ put_log' = st.put_log

\* A direct _save_to_cache(text, embedding).
Put(text, embedding, touch) ==
    /\ call = NoCall
    /\ use_cache
    /\ Commit(_save_to_cache(CacheState, text, embedding, touch))
    /\ call' = [NoCall EXCEPT !.op = "put", !.texts = <<text>>, !.result = <<embedding>>]
    /\ UNCHANGED <<use_cache, chunk_vars, dir_vars, search_vars, loop_vars>>

\* A direct _get_from_cache(text).
Get(text, touch) ==
    /\ call = NoCall
    /\ use_cache
    /\ Commit(ReadFile(CacheState, text, touch))
    /\ call' = [NoCall EXCEPT !.op = "get", !.texts = <<text>>,
                              !.result = <<_get_from_cache(files, text)>>]
    /\ UNCHANGED <<use_cache, chunk_vars, dir_vars, search_vars, loop_vars>>

GenerateEmbedding(text, ok, touch) ==
    LET r == generate_embedding(CacheState, text, ok, touch)
    IN  /\ call = NoCall
        /\ Commit(r.st)
        /\ call' = [NoCall EXCEPT !.op = "generate_embedding", !.texts = <<text>>,
                                  !.outcome = <<ok>>,
                                  !.lookups = <<IF use_cache THEN _get_from_cache(files, text)
                                                ELSE None>>,
                                  !.result = <<r.result>>]
        /\ UNCHANGED <<use_cache, chunk_vars, dir_vars, search_vars, loop_vars>>

GenerateEmbeddings(texts, batch_size, outcome, touch) ==
    LET r == generate_embeddings(CacheState, texts, batch_size, outcome, touch)
    IN  /\ call = NoCall
        /\ Commit(r.st)
        /\ call' = [op |-> "generate_embeddings", texts |-> texts, batch_size |-> batch_size,
                    outcome |-> outcome, lookups |-> r.lookups,
                    result |-> r.all_embeddings, trace |-> r.trace]
        /\ UNCHANGED <<use_cache, chunk_vars, dir_vars, search_vars, loop_vars>>

\* The caller takes the result; time passes.
Return ==
    /\ call # NoCall
    /\ call' = NoCall
    /\ runs' = <<>>
    /\ files' = Renumber(files)
    /\ UNCHANGED <<use_cache, put_log, chunk_vars, dir_vars, search_vars, loop_vars>>

EmbedNext ==
    \/ \E text \in Texts, embedding \in PutVectors, touch \in BOOLEAN :
          Put(text, embedding, touch)
    \/ \E text \in Texts, touch \in BOOLEAN : Get(text, touch)
    \/ \E text \in Texts, ok \in BOOLEAN, touch \in BOOLEAN :
          GenerateEmbedding(text, ok, touch)
    \/ \E texts \in TextLists, batch_size \in BatchSizes, touch \in BOOLEAN :
          \E outcome \in [1..NumBatches(texts, batch_size) -> BOOLEAN] :
             GenerateEmbeddings(texts, batch_size, outcome, touch)
    \/ Return

SpecEmbed == EmbedInit /\ [][EmbedNext]_vars

(***************************************************************************)
(* The cache alone: puts and gets of vectors of different written sizes    *)
(***************************************************************************)
\* Vectors whose numbers take more characters in the file.
LongVectors == { [k \in 1..EMBEDDING_DIMENSIONS |-> 10] }

PutInit ==
    /\ use_cache = TRUE
    /\ EmbedStart
    /\ ChunkIdle
    /\ DirIdle
    /\ SearchIdle
    /\ LoopIdle

PutNext ==
    \/ \E text \in Texts, embedding \in PutVectors \cup LongVectors, touch \in BOOLEAN :
          Put(text, embedding, touch)
    \/ \E text \in Texts, touch \in BOOLEAN : Get(text, touch)
    \/ Return

SpecPut == PutInit /\ [][PutNext]_vars

(***************************************************************************)
(* EmbeddingGenerator with a failing cache                                 *)
(***************************************************************************)
\* Reading the cache file of the text raises.
Unreadable(fs, text) ==
    _get_cache_path(text) \in DOMAIN fs /\ ~fs[_get_cache_path(text)].readable

FaultInit ==
    /\ use_cache = TRUE
    /\ EmbedStart
    /\ ChunkIdle
    /\ DirIdle
    /\ SearchIdle
    /\ LoopIdle

\* The cache file of a text is damaged: json.load raises on it from now on,
\* until it is written again.
Corrupt(text) ==
    /\ call = NoCall
    /\ _get_cache_path(text) \in DOMAIN files
    /\ files[_get_cache_path(text)].readable
    /\ files' = [files EXCEPT ![_get_cache_path(text)].readable = FALSE]
    /\ UNCHANGED <<use_cache, runs, put_log, call, chunk_vars, dir_vars, search_vars, loop_vars>>

\* The cache file of a text loses its write permission: open(path, 'w') and
\* os.remove raise on it from now on.
Lock(text) ==
    /\ call = NoCall
    /\ _get_cache_path(text) \in DOMAIN files
    /\ ~files[_get_cache_path(text)].locked
    /\ files' = [files EXCEPT ![_get_cache_path(text)].locked = TRUE]
    /\ UNCHANGED <<use_cache, runs, put_log, call, chunk_vars, dir_vars, search_vars, loop_vars>>

FaultNext ==
    \/ EmbedNext
    \/ \E text \in Texts : Corrupt(text)
    \/ \E text \in Texts : Lock(text)

SpecFault == FaultInit /\ [][FaultNext]_vars

(***************************************************************************)
(* DocumentProcessor: text                                                 *)
(*                                                                         *)
(* A text is a sequence of characters, each a pair <<c, p>>: the           *)
(* character c and the position p (from 1) it has in the file it was read  *)
(* from, 0 for a character the chunker adds itself.  Every operation acts  *)
(* on the characters; the positions only ride along, so that a chunk       *)
(* tells which part of the source it holds.  The uuid4 id of a chunk is    *)
(* not modelled.                                                           *)
(***************************************************************************)
Ch(x) == x[1]
Pos(x) == x[2]

\* The characters of a text, without positions.
Chars(text) == [k \in 1..Len(text) |-> Ch(text[k])]

\* A literal the code adds ("\n\n", " ").
Added(chars) == [k \in 1..Len(chars) |-> <<chars[k], 0>>]

\* \s of re, and the characters str.strip() removes.
IsSpace(c) == c \in {" ", "\n", "\t"}

\* \w of re.
IsWord(c) == c \in {"a", "b", "c", "d", "e", "f", "g", "h", "i", "j", "k", "l", "m",
                    "n", "o", "p", "q", "r", "s", "t", "u", "v", "w", "x", "y", "z",
                    "_", "0", "1", "2", "3", "4", "5", "6", "7", "8", "9"}

\* The index (from 0) of the first character at or after i that is not
\* white space; len(text) if there is none.
RECURSIVE SkipSpace(_, _)
SkipSpace(text, i) ==
    IF i >= Len(text) THEN Len(text)
    ELSE IF IsSpace(Ch(text[i + 1])) THEN SkipSpace(text, i + 1) ELSE i

\* One more than the index (from 0) of the last character before j that is
\* not white space; 0 if there is none.
RECURSIVE SkipSpaceBack(_, _)
SkipSpaceBack(text, j) ==
    IF j <= 0 THEN 0
    ELSE IF IsSpace(Ch(text[j])) THEN SkipSpaceBack(text, j - 1) ELSE j

\* str.strip()
Strip(text) ==
    LET a == SkipSpace(text, 0)
    IN  IF a >= Len(text) THEN <<>> ELSE Slice(text, a, SkipSpaceBack(text, Len(text)))

\* str.find(c, start): the lowest index >= start that holds c, or -1.
RECURSIVE Find(_, _, _)
Find(text, c, start) ==
    IF start >= Len(text) THEN -1
    ELSE IF Ch(text[start + 1]) = c THEN start ELSE Find(text, c, start + 1)

\* str.rfind(c, start, end): the highest index in [start, end) that holds c, or -1.
RECURSIVE RFind(_, _, _, _)
RFind(text, c, start, end) ==
    IF end <= start THEN -1
    ELSE IF Ch(text[end]) = c THEN end - 1 ELSE RFind(text, c, start, end - 1)

\* {**metadata, 'chunk': chunk_num}
WithChunk(metadata, chunk_num) ==
    [k \in DOMAIN metadata \cup {"chunk"} |-> IF k = "chunk" THEN chunk_num ELSE metadata[k]]

Chunk(text, metadata) == [text |-> text, metadata |-> metadata]

(***************************************************************************)
(* _character_chunk (document.py 363-399)                                  *)
(***************************************************************************)
\* The end of the window that starts at start (371-383).
WindowEnd(text, start) ==
    LET end == Min(start + chunk_size, Len(text))
        sentence_boundary == RFind(text, ".", start, end)
        space == RFind(text, " ", start, end)
    IN  IF end < Len(text)
        THEN IF 2 * sentence_boundary > 2 * start + chunk_size THEN sentence_boundary + 1
             ELSE IF 2 * space > 2 * start + chunk_size THEN space
             ELSE end
        ELSE end

\* Mutant: the next window starts one character after the end of this one.
NextStartSkipping(start, end) == end + 1

\* Mutant: the next window starts where this one ends.
NextStartNoOverlap(start, end) == end

\* Mutant: the step back is guarded against the start of the text only.
NextStartGuardZero(start, end) == IF end - overlap > 0 THEN end - overlap ELSE end

\* start = end - self.overlap if end - self.overlap > start else end  (392)
NextStart(start, end) == IF end - overlap > start THEN end - overlap ELSE end

RECURSIVE CharacterLoop(_, _, _, _, _)
CharacterLoop(text, metadata, start, chunk_num, out) ==
    IF start >= Len(text) THEN out
    ELSE LET end == WindowEnd(text, start)
             emitted == Append(out, Chunk(Strip(Slice(text, start, end)),
                                          WithChunk(metadata, chunk_num)))
             next == NextStart(start, end)
         IN  IF next >= Len(text) \/ (end = Len(text) /\ chunk_num + 1 > 1)
             THEN emitted
             ELSE CharacterLoop(text, metadata, next, chunk_num + 1, emitted)

_character_chunk(text, metadata) == CharacterLoop(text, metadata, 0, 1, <<>>)

\* The windows <<start, end>> of the same loop (370-397), one for each chunk
\* it appends.
RECURSIVE CharacterWindows(_, _, _, _)
CharacterWindows(text, start, chunk_num, out) ==
    IF start >= Len(text) THEN out
    ELSE LET end == WindowEnd(text, start)
             emitted == Append(out, <<start, end>>)
             next == NextStart(start, end)
         IN  IF next >= Len(text) \/ (end = Len(text) /\ chunk_num + 1 > 1)
             THEN emitted
             ELSE CharacterWindows(text, next, chunk_num + 1, emitted)

(***************************************************************************)
(* _find_code_chunk_points (document.py 198-248)                           *)
(***************************************************************************)
\* A pattern is a sequence of items, matched left to right from the start of
\* the line, each as far as it can go.  No item of the five patterns can match
\* a character the next item starts with, so this is what re.match does.
Lit(chars) == [kind |-> "lit", chars |-> chars]
OneOf(set) == [kind |-> "one", chars |-> set]
Spaces0 == [kind |-> "\\s*", chars |-> <<>>]
Spaces1 == [kind |-> "\\s+", chars |-> <<>>]
Words1 == [kind |-> "\\w+", chars |-> <<>>]

patterns ==
    << \* ^\s*def\s+\w+\s*\(
       << Spaces0, Lit(<<"d", "e", "f">>), Spaces1, Words1, Spaces0, Lit(<<"(">>) >>,
       \* ^\s*class\s+\w+\s*[:\(]
       << Spaces0, Lit(<<"c", "l", "a", "s", "s">>), Spaces1, Words1, Spaces0,
          OneOf({":", "("}) >>,
       \* ^\s*if\s+__name__\s*==\s*['"]__main__['"]\s*:
       << Spaces0, Lit(<<"i", "f">>), Spaces1,
          Lit(<<"_", "_", "n", "a", "m", "e", "_", "_">>), Spaces0, Lit(<<"=", "=">>),
          Spaces0, OneOf({"'", "\""}),
          Lit(<<"_", "_", "m", "a", "i", "n", "_", "_">>), OneOf({"'", "\""}),
          Spaces0, Lit(<<":">>) >>,
       \* ^\s*@\w+
       << Spaces0, Lit(<<"@">>), Words1 >>,
       \* ^\s*#\s*\w+
       << Spaces0, Lit(<<"#">>), Spaces0, Words1 >> >>

\* The index after the longest run, from i, of characters of the class.
RECURSIVE SkipWhile(_, _, _)
SkipWhile(line, i, word) ==
    IF i >= Len(line) THEN i
    ELSE IF (IF word THEN IsWord(Ch(line[i + 1])) ELSE IsSpace(Ch(line[i + 1])))
         THEN SkipWhile(line, i + 1, word)
         ELSE i

\* The index after the match of one item at i, or -1.
MatchItem(line, i, item) ==
    CASE item.kind = "lit" ->
            IF /\ i + Len(item.chars) <= Len(line)
               /\ \A k \in 1..Len(item.chars) : Ch(line[i + k]) = item.chars[k]
            THEN i + Len(item.chars) ELSE -1
      [] item.kind = "one" ->
            IF i < Len(line) /\ Ch(line[i + 1]) \in item.chars THEN i + 1 ELSE -1
      [] item.kind = "\\s*" -> SkipWhile(line, i, FALSE)
      [] item.kind = "\\s+" ->
            IF SkipWhile(line, i, FALSE) > i THEN SkipWhile(line, i, FALSE) ELSE -1
      [] item.kind = "\\w+" ->
            IF SkipWhile(line, i, TRUE) > i THEN SkipWhile(line, i, TRUE) ELSE -1

\* re.match(pattern, line)
RECURSIVE MatchFrom(_, _, _, _)
MatchFrom(line, i, pattern, k) ==
    IF k > Len(pattern) THEN TRUE
    ELSE LET j == MatchItem(line, i, pattern[k])
         IN  IF j < 0 THEN FALSE ELSE MatchFrom(line, j, pattern, k + 1)

MatchesAnyPattern(line) == \E n \in 1..Len(patterns) : MatchFrom(line, 0, patterns[n], 1)

\* line_start_positions (212-215): 0 and the index after every "\n".
LineStartPositions(code) ==
    <<0>> \o SelectSeq([k \in 1..Len(code) |-> IF Ch(code[k]) = "\n" THEN k ELSE -1],
                       LAMBDA x : x >= 0)

\* The line that starts at line_start (219-223).
LineAt(code, line_start) ==
    LET found == Find(code, "\n", line_start)
        line_end == IF found = -1 THEN Len(code) ELSE found
    IN  Slice(code, line_start, line_end)

\* list.index(x): the index (from 0) of the first occurrence.
IndexOf(seq, x) == (CHOOSE k \in 1..Len(seq) : seq[k] = x /\ \A m \in 1..(k - 1) : seq[m] # x) - 1

MIN_LINE_DISTANCE == 5

\* Mutant: a close candidate replaces the point kept before it.
RECURSIVE FilterPointsKeepLater(_, _, _, _)
FilterPointsKeepLater(chunk_points, line_start_positions, k, filtered_points) ==
    IF k > Len(chunk_points) THEN filtered_points
    ELSE LET point == chunk_points[k]
             prev_point == filtered_points[Len(filtered_points)]
             prev_line == IndexOf(line_start_positions, prev_point)
             current_line == IndexOf(line_start_positions, point)
         IN  FilterPointsKeepLater(chunk_points, line_start_positions, k + 1,
                            IF current_line - prev_line >= MIN_LINE_DISTANCE
                            THEN Append(filtered_points, point)
                            ELSE [filtered_points EXCEPT ![Len(filtered_points)] = point])

\* for point in chunk_points[1:] (235-244)
RECURSIVE FilterPoints(_, _, _, _)
FilterPoints(chunk_points, line_start_positions, k, filtered_points) ==
    IF k > Len(chunk_points) THEN filtered_points
    ELSE LET point == chunk_points[k]
             prev_point == filtered_points[Len(filtered_points)]
             prev_line == IndexOf(line_start_positions, prev_point)
             current_line == IndexOf(line_start_positions, point)
         IN  FilterPoints(chunk_points, line_start_positions, k + 1,
                          IF current_line - prev_line >= MIN_LINE_DISTANCE
                          THEN Append(filtered_points, point)
                          ELSE filtered_points)

_find_code_chunk_points(code) ==
    LET line_start_positions == LineStartPositions(code)
        chunk_points == SelectSeq(line_start_positions,
                                  LAMBDA line_start : MatchesAnyPattern(LineAt(code, line_start)))
    IN  IF chunk_points # <<>>
        THEN FilterPoints(chunk_points, line_start_positions, 2, <<chunk_points[1]>>)
        ELSE chunk_points

(***************************************************************************)
(* _chunk_code (document.py 250-284)                                       *)
(***************************************************************************)
\* Mutant: the step back is not held at the start of the code; a negative
\* start_idx counts from the end of the code when it is used in a slice.
RECURSIVE CodePointsUnclamped(_, _, _, _, _)
CodePointsUnclamped(code, metadata, chunk_points, k, st) ==
    LET from == IF st.start_idx < 0 THEN Max(0, Len(code) + st.start_idx) ELSE st.start_idx
    IN  IF k > Len(chunk_points) THEN [st EXCEPT !.start_idx = from]
        ELSE LET point == chunk_points[k]
             IN  CodePointsUnclamped(code, metadata, chunk_points, k + 1,
                     IF 2 * (point - st.start_idx) >= chunk_size
                     THEN [ start_idx |-> point - overlap,
                            chunk_num |-> st.chunk_num + 1,
                            chunks |-> Append(st.chunks,
                                              Chunk(Slice(code, from, point),
                                                    WithChunk(metadata, st.chunk_num))) ]
                     ELSE st)

\* for point in chunk_points (262-271); st = [start_idx, chunk_num, chunks].
RECURSIVE CodePoints(_, _, _, _, _)
CodePoints(code, metadata, chunk_points, k, st) ==
    IF k > Len(chunk_points) THEN st
    ELSE LET point == chunk_points[k]
         IN  CodePoints(code, metadata, chunk_points, k + 1,
                 IF 2 * (point - st.start_idx) >= chunk_size
                 THEN [ start_idx |-> Max(0, point - overlap),
                        chunk_num |-> st.chunk_num + 1,
                        chunks |-> Append(st.chunks,
                                          Chunk(Slice(code, st.start_idx, point),
                                                WithChunk(metadata, st.chunk_num))) ]
                 ELSE st)

_chunk_code(code, metadata) ==
    LET chunk_points == _find_code_chunk_points(code)
    IN  IF chunk_points # <<>>
        THEN LET st == CodePoints(code, metadata, chunk_points, 1,
                                  [start_idx |-> 0, chunk_num |-> 1, chunks |-> <<>>])
             IN  IF st.start_idx < Len(code)
                 THEN Append(st.chunks, Chunk(Slice(code, st.start_idx, Len(code)),
                                              WithChunk(metadata, st.chunk_num)))
                 ELSE st.chunks
        ELSE _character_chunk(code, metadata)

(***************************************************************************)
(* _split_large_paragraph (document.py 329-361)                            *)
(***************************************************************************)
\* The first match of (?<=[.!?])\s+ at or after i, as <<start, end>> (end
\* exclusive), or <<>>.
RECURSIVE SentenceBreak(_, _)
SentenceBreak(para, i) ==
    IF i >= Len(para) THEN <<>>
    ELSE IF /\ i >= 1
            /\ Ch(para[i]) \in {".", "!", "?"}
            /\ IsSpace(Ch(para[i + 1]))
         THEN <<i, SkipSpace(para, i)>>
         ELSE SentenceBreak(para, i + 1)

\* re.split(r'(?<=[.!?])\s+', para)
RECURSIVE SplitSentences(_)
SplitSentences(para) ==
    LET m == SentenceBreak(para, 0)
    IN  IF m = <<>> THEN <<para>>
        ELSE <<Slice(para, 0, m[1])>> \o SplitSentences(Slice(para, m[2], Len(para)))

\* for sentence in sentences (337-351); st = [current_chunk, chunk_num, chunks].
RECURSIVE SentenceLoop(_, _, _, _)
SentenceLoop(sentences, metadata, k, st) ==
    IF k > Len(sentences) THEN st
    ELSE LET sentence == sentences[k]
         IN  SentenceLoop(sentences, metadata, k + 1,
                 IF Len(st.current_chunk) + Len(sentence) > chunk_size
                 THEN IF st.current_chunk # <<>>
                      THEN [ current_chunk |-> sentence \o Added(<<" ">>),
                             chunk_num |-> st.chunk_num + 1,
                             chunks |-> Append(st.chunks,
                                               Chunk(Strip(st.current_chunk),
                                                     WithChunk(metadata, st.chunk_num))) ]
                      ELSE [st EXCEPT !.chunks = @ \o _character_chunk(sentence, metadata)]
                 ELSE [st EXCEPT !.current_chunk = @ \o sentence \o Added(<<" ">>)])

_split_large_paragraph(para, metadata, start_chunk_num) ==
    LET st == SentenceLoop(SplitSentences(para), metadata, 1,
                           [current_chunk |-> <<>>, chunk_num |-> start_chunk_num,
                            chunks |-> <<>>])
    IN  IF Strip(st.current_chunk) # <<>>
        THEN Append(st.chunks, Chunk(Strip(st.current_chunk), WithChunk(metadata, st.chunk_num)))
        ELSE st.chunks

(***************************************************************************)
(* _chunk_text (document.py 286-327)                                       *)
(***************************************************************************)
\* The index of the last "\n" in [from, to), or -1.
LastNewline(text, from, to) == RFind(text, "\n", from, to)

\* The first match of \n\s*\n at or after i, as <<start, end>> (end
\* exclusive), or <<>>: a "\n", then as much white space as still leaves a
\* final "\n".
RECURSIVE ParagraphBreak(_, _)
ParagraphBreak(text, i) ==
    IF i >= Len(text) THEN <<>>
    ELSE IF /\ Ch(text[i + 1]) = "\n"
            /\ LastNewline(text, i + 1, SkipSpace(text, i + 1)) >= 0
         THEN <<i, LastNewline(text, i + 1, SkipSpace(text, i + 1)) + 1>>
         ELSE ParagraphBreak(text, i + 1)

\* re.split(r'\n\s*\n', text)
RECURSIVE SplitParagraphs(_)
SplitParagraphs(text) ==
    LET m == ParagraphBreak(text, 0)
    IN  IF m = <<>> THEN <<text>>
        ELSE <<Slice(text, 0, m[1])>> \o SplitParagraphs(Slice(text, m[2], Len(text)))

\* 311-313: the sub-chunks are appended; current_chunk is left as it is.
OversizedParagraph(para, metadata, st) ==
    LET subs == _split_large_paragraph(para, metadata, st.chunk_num)
    IN  [ current_chunk |-> st.current_chunk,
          chunk_num |-> st.chunk_num + Len(subs),
          chunks |-> st.chunks \o subs ]

\* for para in paragraphs (296-317); st = [current_chunk, chunk_num, chunks].
RECURSIVE ParagraphLoop(_, _, _, _)
ParagraphLoop(paragraphs, metadata, k, st) ==
    IF k > Len(paragraphs) THEN st
    ELSE LET para == paragraphs[k]
             flushed == IF st.current_chunk # <<>>
                        THEN [ current_chunk |-> st.current_chunk,
                               chunk_num |-> st.chunk_num + 1,
                               chunks |-> Append(st.chunks,
                                                 Chunk(Strip(st.current_chunk),
                                                       WithChunk(metadata, st.chunk_num))) ]
                        ELSE st
         IN  ParagraphLoop(paragraphs, metadata, k + 1,
                 IF Len(st.current_chunk) + Len(para) > chunk_size
                 THEN IF Len(para) > chunk_size
                      THEN OversizedParagraph(para, metadata, flushed)
                      ELSE [flushed EXCEPT !.current_chunk = para \o Added(<<"\n", "\n">>)]
                 ELSE [st EXCEPT !.current_chunk = @ \o para \o Added(<<"\n", "\n">>)])

_chunk_text(text, metadata) ==
    LET st == ParagraphLoop(SplitParagraphs(text), metadata, 1,
                            [current_chunk |-> <<>>, chunk_num |-> 1, chunks |-> <<>>])
    IN  IF Strip(st.current_chunk) # <<>>
        THEN Append(st.chunks, Chunk(Strip(st.current_chunk), WithChunk(metadata, st.chunk_num)))
        ELSE st.chunks

(***************************************************************************)
(* _chunk_sections (document.py 170-196)                                   *)
(***************************************************************************)
ChunkSection(section) ==
    IF section.metadata.chunk_type = "code"
    THEN IF 2 * Len(section.text) <= 3 * chunk_size
         THEN <<Chunk(section.text, section.metadata)>>
         ELSE _chunk_code(section.text, section.metadata)
    ELSE _chunk_text(section.text, section.metadata)

RECURSIVE SectionLoop(_, _)
SectionLoop(sections, k) ==
    IF k > Len(sections) THEN <<>>
    ELSE ChunkSection(sections[k]) \o SectionLoop(sections, k + 1)

_chunk_sections(sections) == SectionLoop(sections, 1)

(***************************************************************************)
(* _parse_markdown, _extract_title, process_file (document.py 70-168)      *)
(*                                                                         *)
(* A file is [suffix, filename, content, nodes]: content is the text read, *)
(* nodes the children of the root of its Tree-sitter parse, each with its  *)
(* type, its byte range, and the byte range of its heading_content or      *)
(* code_fence_content child (empty when it has none).                      *)
(***************************************************************************)
\* The end of the line that holds index i.
LineEnd(content, i) ==
    IF Find(content, "\n", i) = -1 THEN Len(content) ELSE Find(content, "\n", i)

\* re.search(r'^#\s+(.+)$', content, re.MULTILINE) tried at one line start:
\* <<TRUE, group 1>> or <<FALSE, <<>>>>.
TitleAt(content, line_start) ==
    LET j == SkipSpace(content, line_start + 1)
    IN  IF line_start >= Len(content) \/ Ch(content[line_start + 1]) # "#" \/ j = line_start + 1
        THEN <<FALSE, <<>>>>
        ELSE IF j < Len(content)
        THEN <<TRUE, Slice(content, j, LineEnd(content, j))>>
        \* only white space follows: \s+ gives characters back to (.+), which
        \* takes white space of the last line that is not a line break
        ELSE IF \E k \in (line_start + 2)..(Len(content) - 1) : Ch(content[k + 1]) # "\n"
        THEN <<TRUE, <<>>>>
        ELSE <<FALSE, <<>>>>

RECURSIVE FirstTitle(_, _, _)
FirstTitle(content, line_start_positions, k) ==
    IF k > Len(line_start_positions) THEN "Untitled Document"
    ELSE LET m == TitleAt(content, line_start_positions[k])
         IN  IF m[1] THEN Chars(Strip(m[2]))
             ELSE FirstTitle(content, line_start_positions, k + 1)

_extract_title(content) == FirstTitle(content, LineStartPositions(content), 1)

TextTypes == {"paragraph", "block_quote", "list"}

\* for child in root_node.children (121-166); st = [current_heading, sections].
RECURSIVE NodeLoop(_, _, _, _, _)
NodeLoop(content, filename, nodes, k, st) ==
    IF k > Len(nodes) THEN st.sections
    ELSE LET child == nodes[k]
             inner == Slice(content, child.inner_start, child.inner_end)
             text == Slice(content, child.start_byte, child.end_byte)
         IN  NodeLoop(content, filename, nodes, k + 1,
                 IF child.type = "atx_heading"
                 THEN IF child.inner_end > child.inner_start
                      THEN [st EXCEPT !.current_heading = Chars(inner)]
                      ELSE st
                 ELSE IF child.type = "fenced_code_block"
                 THEN IF Strip(inner) # <<>>
                      THEN [st EXCEPT !.sections = Append(@,
                               [ text |-> inner,
                                 metadata |-> [ title |-> st.current_heading,
                                                source |-> filename,
                                                chunk_type |-> "code",
                                                language |-> "" ] ])]
                      ELSE st
                 ELSE IF child.type \in TextTypes
                 THEN IF Strip(text) # <<>>
                      THEN [st EXCEPT !.sections = Append(@,
                               [ text |-> text,
                                 metadata |-> [ title |-> st.current_heading,
                                                source |-> filename,
                                                chunk_type |-> "text" ] ])]
                      ELSE st
                 ELSE st)

_parse_markdown(content, filename, nodes) ==
    NodeLoop(content, filename, nodes, 1,
             [current_heading |-> _extract_title(content), sections |-> <<>>])

\* The sections of a file (78-92).
Sections(file) ==
    IF file.suffix \in {"md", "markdown"}
    THEN _parse_markdown(file.content, file.filename, file.nodes)
    ELSE << [ text |-> file.content,
              metadata |-> [ title |-> file.filename, source |-> file.filename,
                             chunk_type |-> "code", language |-> file.suffix ] ] >>

process_file(file) == _chunk_sections(Sections(file))

(***************************************************************************)
(* DocumentProcessor: inputs                                               *)
(***************************************************************************)
\* Most tokens in the text of a section.
MaxTokens == 4
\* Most nodes in a file of several nodes.
MaxNodes == 3

Tokens == { <<"a", "a">>, <<"a", ".">>, <<" ">>, <<"\n", "\n">>, <<"#", "a", "\n">> }

RECURSIVE Concats(_)
Concats(n) ==
    IF n = 0 THEN {<<>>}
    ELSE LET shorter == Concats(n - 1)
         IN  shorter \cup { b \o t : b \in shorter, t \in Tokens }

Bodies == Concats(MaxTokens)

\* (chunk_size, overlap)
Configs == { <<4, 1>>, <<4, 0>>, <<4, 3>>, <<3, 1>>, <<3, 2>>, <<3, 3>> }

\* The source text of a node, and where its content child lies in it.
NodeText(type, body) ==
    IF type = "atx_heading" THEN <<"#", " ">> \o body
    ELSE IF type = "fenced_code_block" THEN <<"~", "~", "~", "\n">> \o body \o <<"~", "~", "~">>
    ELSE body

InnerOffset(type) ==
    IF type = "atx_heading" THEN 2 ELSE IF type = "fenced_code_block" THEN 4 ELSE 0

\* The file made of the given nodes, a blank line between two of them.
RECURSIVE Layout(_, _, _)
Layout(shapes, k, file) ==
    IF k > Len(shapes) THEN file
    ELSE LET gap == IF k = 1 THEN <<>> ELSE <<"\n", "\n">>
             start == Len(file.content) + Len(gap)
             text == NodeText(shapes[k].type, shapes[k].body)
             node == [ type |-> shapes[k].type,
                       start_byte |-> start,
                       end_byte |-> start + Len(text),
                       inner_start |-> start + InnerOffset(shapes[k].type),
                       inner_end |-> start + InnerOffset(shapes[k].type) + Len(shapes[k].body) ]
         IN  Layout(shapes, k + 1,
                    [file EXCEPT !.content = @ \o gap \o text, !.nodes = Append(@, node)])

\* The characters read, each with its position in the file.
Tagged(chars) == [k \in 1..Len(chars) |-> <<chars[k], k>>]

MarkdownFile(shapes) ==
    LET file == Layout(shapes, 1, [suffix |-> "md", filename |-> "doc.md",
                                   content |-> <<>>, nodes |-> <<>>])
    IN  [file EXCEPT !.content = Tagged(@)]

PythonFile(body) ==
    [suffix |-> "py", filename |-> "mod.py", content |-> Tagged(body), nodes |-> <<>>]

\* A block of text starts at its first character that is not white space; a
\* paragraph holds no blank line, a list or a block quote may.
TextShape(body) ==
    [type |-> IF ParagraphBreak(Tagged(body), 0) = <<>> THEN "paragraph" ELSE "list",
     body |-> body]

SmallShapes ==
    { [type |-> "atx_heading", body |-> <<"t">>],
      [type |-> "paragraph", body |-> <<"a", "a", ".">>],
      [type |-> "fenced_code_block", body |-> <<"#", "a", "\n">>],
      [type |-> "thematic_break", body |-> <<"-", "-", "-">>] }

Files ==
    { PythonFile(body) : body \in Bodies }
    \cup { MarkdownFile(<<[type |-> "fenced_code_block", body |-> body]>>) : body \in Bodies }
    \cup { MarkdownFile(<<TextShape(body)>>) :
              body \in { b \in Bodies : b # <<>> /\ ~IsSpace(b[1]) } }
    \cup { MarkdownFile(shapes) :
              shapes \in UNION { [1..n -> SmallShapes] : n \in 2..MaxNodes } }

(***************************************************************************)
(* DocumentProcessor: the state machine                                    *)
(***************************************************************************)
EmbedIdle ==
    /\ use_cache = FALSE
    /\ EmbedStart

ChunkInit ==
    /\ \E config \in Configs : chunk_size = config[1] /\ overlap = config[2]
    /\ doc \in Files
    /\ chunks = <<>>
    /\ pc = "start"
    /\ EmbedIdle
    /\ DirIdle
    /\ SearchIdle
    /\ LoopIdle

ProcessFile ==
    /\ pc = "start"
    /\ chunks' = process_file(doc)
    /\ pc' = "done"
    /\ UNCHANGED <<chunk_size, overlap, doc, embed_vars, dir_vars, search_vars, loop_vars>>

ChunkNext == ProcessFile

SpecChunk == ChunkInit /\ [][ChunkNext]_vars

(***************************************************************************)
(* DocumentProcessor on source files of several lines                      *)
(***************************************************************************)
\* Most lines in a source file.
MaxLines == 7

\* A section comment (a boundary line), a statement, an empty line.
CodeLines == { <<"#", "a">>, <<"a", ".">>, <<>> }

\* The content of a file with the given lines.
RECURSIVE JoinLines(_)
JoinLines(lines) ==
    IF Len(lines) = 1 THEN lines[1]
    ELSE lines[1] \o <<"\n">> \o JoinLines(Tail(lines))

CodeTexts == { JoinLines(lines) : lines \in UNION { [1..n -> CodeLines] : n \in 1..MaxLines } }

\* (chunk_size, overlap): overlap below, above half of, and above chunk_size.
CodeConfigs == { <<8, 2>>, <<6, 0>>, <<4, 1>>, <<4, 3>>, <<4, 6>> }

CodeInit ==
    /\ \E config \in CodeConfigs : chunk_size = config[1] /\ overlap = config[2]
    /\ doc \in { PythonFile(body) : body \in CodeTexts }
    /\ chunks = <<>>
    /\ pc = "start"
    /\ EmbedIdle
    /\ DirIdle
    /\ SearchIdle
    /\ LoopIdle

SpecCode == CodeInit /\ [][ChunkNext]_vars

(***************************************************************************)
(* _character_chunk (document.py 363-399), one iteration at a time         *)
(***************************************************************************)
\* Most characters in the text.
MaxWindowText == 5

WindowTexts == UNION { [1..n -> {"a", ".", " "}] : n \in 0..MaxWindowText }

\* (chunk_size, overlap): chunk_size from 1, overlap from 0, below, equal to
\* and above chunk_size.
WindowConfigs == { <<1, 0>>, <<1, 1>>, <<2, 1>>, <<2, 3>>, <<3, 1>>, <<3, 3>>, <<4, 2>> }

WindowMetadata == [title |-> "t", source |-> "s", chunk_type |-> "text"]

\* start = 0; chunk_num = 1  (365-368)
WindowInit ==
    /\ \E config \in WindowConfigs : chunk_size = config[1] /\ overlap = config[2]
    /\ doc = <<>>
    /\ chunks = <<>>
    /\ pc = "idle"
    /\ loop_text \in { Tagged(chars) : chars \in WindowTexts }
    /\ loop_start = 0
    /\ loop_end = 0
    /\ loop_chunk_num = 1
    /\ loop_chunks = <<>>
    /\ loop_pc = "loop"
    /\ EmbedIdle
    /\ DirIdle
    /\ SearchIdle

\* One pass through the body of the while loop (371-397).
WindowStep ==
    /\ loop_pc = "loop"
    /\ loop_start < Len(loop_text)
    /\ LET end == WindowEnd(loop_text, loop_start)
           next == NextStart(loop_start, end)
       IN  /\ loop_end' = end
           /\ loop_chunks' = Append(loop_chunks,
                                    Chunk(Strip(Slice(loop_text, loop_start, end)),
                                          WithChunk(WindowMetadata, loop_chunk_num)))
           /\ loop_start' = next
           /\ loop_chunk_num' = loop_chunk_num + 1
           /\ loop_pc' = IF next >= Len(loop_text)
                            \/ (end = Len(loop_text) /\ loop_chunk_num + 1 > 1)
                         THEN "done" ELSE "loop"
    /\ UNCHANGED <<loop_text, embed_vars, chunk_vars, dir_vars, search_vars>>

\* The condition of the while loop is false (370): return chunks.
WindowExit ==
    /\ loop_pc = "loop"
    /\ loop_start >= Len(loop_text)
    /\ loop_pc' = "done"
    /\ UNCHANGED <<loop_text, loop_start, loop_end, loop_chunk_num, loop_chunks,
                   embed_vars, chunk_vars, dir_vars, search_vars>>

WindowNext == WindowStep \/ WindowExit

\* The loop is sequential code: as long as it can take a step it takes one.
SpecWindow == WindowInit /\ [][WindowNext]_vars /\ WF_vars(WindowNext)

(***************************************************************************)
(* EmbeddingGenerator: properties                                          *)
(***************************************************************************)
Batched == call.op = "generate_embeddings"

\* The number (from 1) of the batch that holds position i (from 1).
BatchOf(i) == ((i - 1) \div call.batch_size) + 1

\* C1: when every backend call succeeds, generate_embeddings returns at
\* position i the vector of texts[i]: the cached vector if the look-up of
\* texts[i] found one, otherwise the vector the backend computed for it.
C1_AlignedOnSuccess ==
    (Batched /\ \A b \in DOMAIN call.outcome : call.outcome[b])
    => /\ Len(call.result) = Len(call.texts)
       /\ \A i \in 1..Len(call.texts) :
             call.result[i] = IF Truthy(call.lookups[i]) THEN call.lookups[i]
                              ELSE BackendEmbedding(call.texts[i])

\* C2: when the backend call of a batch raises and the cache is enabled, the
\* batch's result holds the cached vector at the position of every cached text
\* and the zero vector at the position of every uncached text.
C2_AlignedOnFailure ==
    (Batched /\ use_cache)
    => /\ Len(call.result) = Len(call.texts)
       /\ \A i \in 1..Len(call.texts) :
             ~call.outcome[BatchOf(i)]
             => call.result[i] = IF Truthy(call.lookups[i]) THEN call.lookups[i]
                                 ELSE ZeroVector

\* C3: generate_embeddings returns exactly len(texts) elements, each a vector
\* of the declared dimension and never None.
C3_DimensionallyValid ==
    Batched
    => /\ Len(call.result) = Len(call.texts)
       /\ \A i \in 1..Len(call.result) :
             /\ call.result[i] # None
             /\ Len(call.result[i]) = EMBEDDING_DIMENSIONS

\* C4: cache round trip -- _get_from_cache(text) returns the vector last saved
\* for text by _save_to_cache, whatever was saved for other texts since, as
\* long as the entry has not been evicted.
C4_RoundTrip ==
    call.op = "get"
    => \A t \in Texts :
          (t = call.texts[1] /\ put_log[t] # None) => call.result[1] = put_log[t]

\* A get of a text saved directly, answered while a later-touched entry of
\* another text is in the cache.
C4_Witness ==
    /\ call.op = "get"
    /\ call.result[1] \in PutVectors
    /\ \E u \in Texts :
          /\ u # call.texts[1]
          /\ put_log[u] # None
          /\ _get_cache_path(u) \in DOMAIN files
          /\ _get_cache_path(call.texts[1]) \in DOMAIN files
          /\ files[_get_cache_path(u)].atime > files[_get_cache_path(call.texts[1])].atime

\* C5: after every run of _manage_cache_size, hence after every cache write,
\* the total size of the stored entries is at most the ceiling.
C5_UnderCeiling ==
    /\ SumSizes(files, DOMAIN files) <= MaxCacheBytes
    /\ \A k \in 1..Len(runs) : runs[k].total <= MaxCacheBytes

\* A run that had to remove entries and kept others.
C5_Witness ==
    \E k \in 1..Len(runs) : runs[k].gone # {} /\ runs[k].kept # {}

Done == pc = "done"

SectionsOf(file) == { Sections(file)[k] : k \in 1..Len(Sections(file)) }

\* The file positions a text holds.
Positions(text) == { Pos(text[k]) : k \in 1..Len(text) } \ {0}

\* Where the content of a chunk begins in the file: the position of its first
\* character that was read from the file (0 if it has none).
RECURSIVE StartPosFrom(_, _)
StartPosFrom(text, k) ==
    IF k > Len(text) THEN 0
    ELSE IF Pos(text[k]) > 0 THEN Pos(text[k]) ELSE StartPosFrom(text, k + 1)

StartPos(chunk) == StartPosFrom(chunk.text, 1)

\* The chunks emitted for a section, in output order: those that begin in it.
ChunksOf(section) ==
    SelectSeq(chunks, LAMBDA c : StartPos(c) \in Positions(section.text))

Oversized(section) ==
    section.metadata.chunk_type = "code" /\ 2 * Len(section.text) > 3 * chunk_size

\* C7: a code section longer than 1.5 x chunk_size is never emitted as a single
\* chunk holding the whole section: it yields at least two chunks, none of
\* them the entire section text.
C7_OversizedCodeIsSplit ==
    Done => \A section \in SectionsOf(doc) :
               Oversized(section)
               => /\ Len(ChunksOf(section)) >= 2
                  /\ \A k \in 1..Len(chunks) : chunks[k].text # section.text

\* C8: every emitted chunk has non-empty text and metadata that contains title,
\* source and chunk_type.
C8_ChunksWellFormed ==
    Done => \A k \in 1..Len(chunks) :
               /\ Len(chunks[k].text) > 0
               /\ {"title", "source", "chunk_type"} \subseteq DOMAIN chunks[k].metadata

\* Some chunk holds the character x of the file.
Emitted(x) == \E k \in 1..Len(chunks) : \E j \in 1..Len(chunks[k].text) : chunks[k].text[j] = x

\* C9 as claimed: every non-whitespace character of the original content
\* appears in the text of at least one emitted chunk.
C9_ContentCovered ==
    Done => \A i \in 1..Len(doc.content) :
               ~IsSpace(Ch(doc.content[i])) => Emitted(doc.content[i])

\* C9 as amended: every non-whitespace character of every section the file is
\* parsed into (the paragraph, block-quote and list nodes and the contents of
\* the code fences of a markdown file, the whole content of any other file)
\* appears in the text of at least one emitted chunk.
C9_SectionsCovered ==
    Done => \A section \in SectionsOf(doc) :
               \A i \in 1..Len(section.text) :
                  ~IsSpace(Ch(section.text[i])) => Emitted(section.text[i])

\* A text section that is split down to sentences or character windows.
C9_Witness ==
    /\ Done
    /\ Len(chunks) >= 3
    /\ \E section \in SectionsOf(doc) :
          section.metadata.chunk_type = "text" /\ Len(section.text) > chunk_size

\* C10: chunk order matches source order -- among the chunks of a section,
\* each chunk's content begins no earlier in the source than the content of
\* the chunk before it.
C10_SourceOrder ==
    Done => \A section \in SectionsOf(doc) :
               LET out == ChunksOf(section)
               IN  \A k \in 1..(Len(out) - 1) : StartPos(out[k]) <= StartPos(out[k + 1])

\* The chunks emitted for the k-th section of the file, in output order: the
\* output is the concatenation of the sections' chunks (190, 194).
RECURSIVE OutputOffset(_)
OutputOffset(k) ==
    IF k = 1 THEN 0 ELSE OutputOffset(k - 1) + Len(ChunkSection(Sections(doc)[k - 1]))

OutputOf(k) ==
    SubSeq(chunks, OutputOffset(k) + 1, OutputOffset(k) + Len(ChunkSection(Sections(doc)[k])))

\* C11: every emitted chunk carries a sequence number and the chunks of one
\* section are numbered 1, 2, ..., n in emission order, none repeated or skipped.
C11_SequenceNumbers ==
    Done => \A s \in 1..Len(Sections(doc)) :
               \A k \in 1..Len(OutputOf(s)) :
                  /\ "chunk" \in DOMAIN OutputOf(s)[k].metadata
                  /\ OutputOf(s)[k].metadata.chunk = k

(***************************************************************************)
(* DocumentProcessor.process_directory                                     *)
(***************************************************************************)
\* Most files process_directory is given in one run.
MaxFiles == 3

\* What can go wrong with one file: nothing, open()/read() raising, or the
\* Tree-sitter parser raising (which only a markdown file can meet).
Faults == {"none", "read", "parse"}

Fails(entry) ==
    \/ entry.fault = "read"
    \/ entry.fault = "parse" /\ entry.file.suffix \in {"md", "markdown"}

\* Mutant: the handler of process_file is missing.
process_file_unguarded(entry) == process_file(entry.file)

\* process_file with its handler (72-100): any exception gives [].
process_file_guarded(entry) == IF Fails(entry) THEN <<>> ELSE process_file(entry.file)

DirFiles ==
    { PythonFile(<<"#", "a">>),
      PythonFile(<<"a", "a", " ", "a", "a", " ", "a", ".">>),
      MarkdownFile(<<[type |-> "paragraph", body |-> <<"a", "a", ".", " ", "a", ".">>]>>),
      MarkdownFile(<<[type |-> "atx_heading", body |-> <<"t">>]>>) }

DirEntries == [file : DirFiles, fault : Faults]

DirInit ==
    /\ chunk_size = 4
    /\ overlap = 1
    /\ doc = <<>>
    /\ chunks = <<>>
    /\ pc = "idle"
    /\ all_files \in UNION { [1..n -> DirEntries] : n \in 0..MaxFiles }
    /\ output_file \in {"none", "ok", "unwritable"}
    /\ all_chunks = <<>>
    /\ next_file = 1
    /\ dir_pc = "loop"
    /\ EmbedIdle
    /\ SearchIdle
    /\ LoopIdle

\* One turn of "for filepath in all_files" (49-55).
DirStep ==
    /\ dir_pc = "loop"
    /\ next_file <= Len(all_files)
    /\ all_chunks' = all_chunks \o process_file_guarded(all_files[next_file])
    /\ next_file' = next_file + 1
    /\ UNCHANGED <<all_files, output_file, dir_pc, chunk_vars, embed_vars, search_vars, loop_vars>>

\* After the loop (60-68): the chunks are saved if output_file is given, and
\* returned; a failure to write the output file is not handled.
DirFinish ==
    /\ dir_pc = "loop"
    /\ next_file > Len(all_files)
    /\ dir_pc' = IF output_file = "unwritable" THEN "raised" ELSE "returned"
    /\ UNCHANGED <<all_files, output_file, all_chunks, next_file, chunk_vars, embed_vars, search_vars, loop_vars>>

DirNext == DirStep \/ DirFinish

SpecDir == DirInit /\ [][DirNext]_vars

\* The chunks of the files before position k that did not fail, in file order.
RECURSIVE ChunksOfGoodFiles(_)
ChunksOfGoodFiles(k) ==
    IF k = 0 THEN <<>>
    ELSE ChunksOfGoodFiles(k - 1)
         \o (IF Fails(all_files[k]) THEN <<>> ELSE process_file(all_files[k].file))

\* C12: in process_directory a file whose read or parse fails contributes no
\* chunks and does not stop processing: every file is visited, and the result
\* is the concatenation, in file order, of the chunks of the files that did
\* not fail.
C12_FailedFilesSkipped ==
    /\ dir_pc = "loop" => all_chunks = ChunksOfGoodFiles(next_file - 1)
    /\ dir_pc = "returned" => /\ next_file = Len(all_files) + 1
                              /\ all_chunks = ChunksOfGoodFiles(Len(all_files))

\* A run that returned, with a failed file before a file that yields chunks.
C12_Witness ==
    /\ dir_pc = "returned"
    /\ \E i, j \in 1..Len(all_files) :
          /\ i < j
          /\ Fails(all_files[i])
          /\ ~Fails(all_files[j])
          /\ process_file(all_files[j].file) # <<>>
    /\ all_chunks # <<>>

(***************************************************************************)
(* SearchEngine._is_code_query (search.py 83-109)                          *)
(*                                                                         *)
(* A query is a sequence of characters.                                    *)
(***************************************************************************)
Upper == <<"A", "B", "C", "D", "E", "F", "G", "H", "I", "J", "K", "L", "M", "N", "O", "P", "Q", "R", "S", "T", "U", "V", "W", "X", "Y", "Z">>
LowerOf == <<"a", "b", "c", "d", "e", "f", "g", "h", "i", "j", "k", "l", "m", "n", "o", "p", "q", "r", "s", "t", "u", "v", "w", "x", "y", "z">>

\* str.lower, on the letters the queries of the model use.
LowerChar(c) ==
    IF \E k \in 1..Len(Upper) : Upper[k] = c
    THEN LowerOf[CHOOSE k \in 1..Len(Upper) : Upper[k] = c]
    ELSE c

StrLower(query) == [k \in 1..Len(query) |-> LowerChar(query[k])]

\* sub in s
Contains(s, sub) == \E i \in 0..(Len(s) - Len(sub)) : SubSeq(s, i + 1, i + Len(sub)) = sub

code_indicators ==
    << <<"c", "o", "d", "e">>,
       <<"e", "x", "a", "m", "p", "l", "e">>,
       <<"i", "m", "p", "l", "e", "m", "e", "n", "t", "a", "t", "i", "o", "n">>,
       <<"f", "u", "n", "c", "t", "i", "o", "n">>,
       <<"c", "l", "a", "s", "s">>,
       <<"m", "e", "t", "h", "o", "d">>,
       <<"s", "n", "i", "p", "p", "e", "t">>,
       <<"s", "y", "n", "t", "a", "x">>,
       <<"p", "a", "r", "a", "m", "e", "t", "e", "r">>,
       <<"a", "r", "g", "u", "m", "e", "n", "t">>,
       <<"r", "e", "t", "u", "r", "n">>,
       <<"i", "m", "p", "o", "r", "t">>,
       <<"m", "o", "d", "u", "l", "e">>,
       <<"a", "p", "i">>,
       <<"c", "a", "l", "l">>,
       <<"i", "n", "v", "o", "k", "e">>,
       <<"i", "n", "s", "t", "a", "n", "t", "i", "a", "t", "e">>,
       <<"c", "r", "e", "a", "t", "e">>,
       <<"i", "n", "i", "t", "i", "a", "l", "i", "z", "e">> >>

code_patterns ==
    << <<"d", "e", "f", " ">>,
       <<"c", "l", "a", "s", "s", " ">>,
       <<"i", "m", "p", "o", "r", "t", " ">>,
       <<"f", "r", "o", "m", " ">>,
       <<"t", "o", "r", "c", "h", ".">>,
       <<"n", "n", ".">>,
       <<"-", ">">>,
       <<"=", ">">>,
       <<"=", "=">>,
       <<"!", "=">>,
       <<"+", "=">>,
       <<"-", "=">>,
       <<"*", "=">>,
       <<"(", ")", ":">>,
       <<"@">> >>

\* Mutant: only the first entry of the list is tried.
FirstMatchHeadOnly(needles, k, s) == Contains(s, needles[k])

\* for needle in needles: if needle in s: return True
RECURSIVE FirstMatch(_, _, _)
FirstMatch(needles, k, s) ==
    IF k > Len(needles) THEN FALSE
    ELSE IF Contains(s, needles[k]) THEN TRUE
    ELSE FirstMatch(needles, k + 1, s)

_is_code_query(query) ==
    LET query_lower == StrLower(query)
    IN  IF FirstMatch(code_indicators, 1, query_lower) THEN TRUE
        ELSE FirstMatch(code_patterns, 1, query)

\* query.strip()
StripQuery(query) == Chars(Strip(Tagged(query)))

\* _process_query (66-81); the embedding goes to the index, which is opaque.
_process_query(query) ==
    [ query |-> StripQuery(query),
      is_code_query |-> _is_code_query(StripQuery(query)) ]

(***************************************************************************)
(* ResultFormatter (formatter.py)                                          *)
(***************************************************************************)
\* The score 1.0, in thousandths.
ScoreUnit == 1000

max_snippet_length == 250

\* metadata.get(key, default)
DictGet(fields, key, default) == IF key \in DOMAIN fields THEN fields[key] ELSE default

Digits == <<"1", "2", "3", "4", "5", "6", "7", "8", "9">>

\* f"Result {i+1}", for i from 0
ResultTitle(i) == <<"Result ", Digits[i + 1]>>

\* One turn of the loop of format_results (44-77), for the i-th row (from 0).
FormatRow(row, i) ==
    LET document == row.document
        snippet == IF Len(document) > max_snippet_length
                   THEN Slice(document, 0, max_snippet_length) \o <<".", ".", ".">>
                   ELSE document
        similarity == IF row.distance.numeric
                      THEN ScoreUnit - row.distance.value
                      ELSE ScoreUnit \div 2
        metadata == row.metadata
    IN  IF metadata.is_dict
        THEN [ title |-> DictGet(metadata.fields, "title", ResultTitle(i)),
               snippet |-> snippet,
               source |-> DictGet(metadata.fields, "source", <<>>),
               chunk_type |-> DictGet(metadata.fields, "chunk_type", "unknown"),
               language |-> DictGet(metadata.fields, "language", ""),
               score |-> similarity ]
        ELSE [ title |-> ResultTitle(i),
               snippet |-> snippet,
               source |-> <<>>,
               chunk_type |-> "unknown",
               language |-> "",
               score |-> similarity ]

\* Mutant: the response reports the trimmed query.
format_results_trimmed(results, query) ==
    [ results |-> [i \in 1..Len(results.rows) |-> FormatRow(results.rows[i], i - 1)],
      query |-> StripQuery(query),
      count |-> Len(results.rows) ]

\* format_results raises on parallel arrays it cannot read: documents that
\* come without distances (results.get('distances', [[]])[0] on None).
FormatRaises(results) == results.kind = "no_distances"

\* format_results (13-84).  results.kind tells the shape of the answer:
\* "none" (None), "no_documents" (documents is no list), "nested" and "flat"
\* (the two ChromaDB layouts, which give the same rows).
format_results(results, query) ==
    IF results.kind \in {"none", "no_documents"}
    THEN [ results |-> <<>>, query |-> query, count |-> 0 ]
    ELSE [ results |-> [i \in 1..Len(results.rows) |-> FormatRow(results.rows[i], i - 1)],
           query |-> query,
           count |-> Len(results.rows) ]

\* Mutant: the boost is not capped.
BoostUncapped(base_score) == (base_score * 12) \div 10

\* min(1.0, base_score * boost_factor), boost_factor = 1.2
Boost(base_score) == Min(ScoreUnit, (base_score * 12) \div 10)

\* The two branches of the boost (100, 104).
Boosted(result, is_code_query) ==
    \/ is_code_query /\ result.chunk_type = "code"
    \/ ~is_code_query /\ result.chunk_type = "text"

BoostResult(result, is_code_query) ==
    IF Boosted(result, is_code_query)
    THEN [result EXCEPT !.score = Boost(result.score)]
    ELSE result

\* Mutant: ascending order.
InsertByScoreAscending(sorted, result) ==
    LET before == SelectSeq(sorted, LAMBDA r : r.score <= result.score)
        after == SelectSeq(sorted, LAMBDA r : r.score > result.score)
    IN  before \o <<result>> \o after

\* Mutant: a result goes before the results of equal score.
InsertByScoreUnstable(sorted, result) ==
    LET before == SelectSeq(sorted, LAMBDA r : r.score > result.score)
        after == SelectSeq(sorted, LAMBDA r : r.score <= result.score)
    IN  before \o <<result>> \o after

\* Where a result goes in a list already sorted: after every result whose
\* score is at least its own (list.sort is stable, with reverse=True too).
InsertByScore(sorted, result) ==
    LET before == SelectSeq(sorted, LAMBDA r : r.score >= result.score)
        after == SelectSeq(sorted, LAMBDA r : r.score < result.score)
    IN  before \o <<result>> \o after

\* formatted_results.sort(key=score, reverse=True)  (108)
RECURSIVE SortByScore(_, _, _)
SortByScore(results, k, sorted) ==
    IF k > Len(results) THEN sorted
    ELSE SortByScore(results, k + 1, InsertByScore(sorted, results[k]))

\* rank_results (86-114)
rank_results(results, is_code_query) ==
    IF results.results = <<>> THEN results
    ELSE LET boosted == [k \in 1..Len(results.results) |->
                            BoostResult(results.results[k], is_code_query)]
         IN  [ results |-> SortByScore(boosted, 1, <<>>),
               query |-> results.query,
               count |-> results.count,
               is_code_query |-> is_code_query ]

(***************************************************************************)
(* DatabaseManager.query (database.py 102-146) and SearchEngine.search     *)
(***************************************************************************)
\* {"ids": [[]], "documents": [[]], "metadatas": [[]], "distances": [[]]}
EmptyResults == [kind |-> "nested", rows |-> <<>>]

\* What the external index answers to query(vector, k, filter): at most
\* n_results rows, all of the chunk type the filter names if there is one.
IndexAnswer(results, n_results, filters) ==
    LET fits(row) == \/ filters = "none"
                     \/ /\ row.metadata.is_dict
                        /\ DictGet(row.metadata.fields, "chunk_type", "unknown") = filters
        rows == SelectSeq(results.rows, fits)
    IN  [results EXCEPT !.rows = Slice(rows, 0, n_results)]

\* Mutant: the failure of collection.query is not handled.
DatabaseManager_query_unhandled(index, n_results, filters) ==
    IndexAnswer(index.results, n_results, filters)

\* DatabaseManager.query once get_collection has succeeded (111-146): the
\* handler covers collection.query raising and an answer that is no dict
\* (results.get raising).
DatabaseManager_query(index, n_results, filters) ==
    IF index.fault = "query" \/ index.results.kind = "not_a_dict" THEN EmptyResults
    ELSE IndexAnswer(index.results, n_results, filters)

\* filters = {"chunk_type": filter_type} if filter_type else None
Filters(filter_type) == IF filter_type = "" THEN "none" ELSE filter_type

\* The exceptions search can meet inside its try: the embedder raising,
\* get_collection raising (database.py 105, outside the handler of query),
\* format_results raising.
Raises(req) ==
    \/ req.embedder = "raises"
    \/ req.index.fault = "collection"
    \/ FormatRaises(DatabaseManager_query(req.index, req.num_results, Filters(req.filter_type)))

ErrorResponse(query) == [ error |-> "exception", query |-> query, results |-> <<>> ]

\* What format_results returns inside search.
SearchFormatted(req) ==
    format_results(DatabaseManager_query(req.index, req.num_results, Filters(req.filter_type)),
                   req.query)

\* search (27-64)
search(req) ==
    IF Raises(req) THEN ErrorResponse(req.query)
    ELSE rank_results(SearchFormatted(req), _process_query(req.query).is_code_query)

(***************************************************************************)
(* SearchEngine: inputs and the state machine                              *)
(***************************************************************************)
QueryCall == <<"H", "o", "w", " ", "d", "o", " ", "I", " ", "c", "a", "l", "l", " ", "t", "o", "r", "c", "h", ".", "n", "n", ".", "L", "i", "n", "e", "a", "r", "(", ")", "?">>
QueryConcept == <<"W", "h", "a", "t", " ", "i", "s", " ", "a", " ", "n", "e", "u", "r", "a", "l", " ", "n", "e", "t", "w", "o", "r", "k", "?">>
QueryOperator == <<" ", "x", " ", "=", "=", " ", "y", " ">>
QueryUpper == <<"C", "L", "A", "S", "S">>
QueryUpperDef == <<"D", "E", "F", " ", "f">>
QueryCapital == <<"c", "a", "p", "i", "t", "a", "l">>
QueryEmpty == <<>>
QueryDef == <<"d", "e", "f", " ">>

Queries == { QueryCall, QueryConcept, QueryOperator, QueryUpper, QueryUpperDef,
             QueryCapital, QueryEmpty, QueryDef }

\* Most rows in an answer of the index.
MaxRows == 3

Number(value) == [numeric |-> TRUE, value |-> value]
NotANumber == [numeric |-> FALSE, value |-> 0]

\* Distances in thousandths: 0, 0.1, 0.3, a cosine distance above 1, and a
\* value that is no number.
Distances == { Number(0), Number(100), Number(300), Number(1500), NotANumber }

Metadatas ==
    { [is_dict |-> TRUE, fields |-> [title |-> <<"nn.Linear">>, source |-> <<"nn.py">>,
                                     chunk_type |-> "code", language |-> "py"]],
      [is_dict |-> TRUE, fields |-> [title |-> <<"Layers">>, source |-> <<"nn.md">>,
                                     chunk_type |-> "text"]],
      [is_dict |-> TRUE, fields |-> [page |-> "1"]],
      [is_dict |-> FALSE, fields |-> [page |-> "0"]] }

Candidates == [metadata : Metadatas, distance : Distances]

\* The rows of an answer: the i-th document is "d<i>".
IndexRows(candidates) ==
    [i \in 1..Len(candidates) |->
        [ document |-> <<"d", Digits[i]>>,
          metadata |-> candidates[i].metadata,
          distance |-> candidates[i].distance ]]

RowLists == { IndexRows(c) : c \in UNION { [1..n -> Candidates] : n \in 0..MaxRows } }

\* Requests that reach the ranker with every kind of answer.
RankingRequests ==
    [ query : {QueryCall, QueryConcept},
      num_results : {MaxRows},
      filter_type : {""},
      embedder : {"ok"},
      index : [fault : {"none"}, results : [kind : {"nested"}, rows : RowLists]] ]

FaultRows ==
    { IndexRows(c) : c \in { <<x, y>> : x \in { d \in Candidates : d.distance = Number(100) },
                                        y \in { d \in Candidates : d.distance = Number(300)
                                                                   /\ d.metadata.is_dict } } }

\* Requests with every query, result count, filter, answer shape and failure.
FaultRequests ==
    [ query : Queries,
      num_results : 1..MaxRows,
      filter_type : {"", "code", "text"},
      embedder : {"ok", "raises"},
      index : [fault : {"none", "collection", "query"},
               results : [kind : {"nested", "flat", "not_a_dict", "no_documents", "no_distances"},
                          rows : FaultRows]] ]

Requests == RankingRequests \cup FaultRequests

SearchInit ==
    /\ request \in Requests
    /\ intent = <<>>
    /\ formatted = <<>>
    /\ response = <<>>
    /\ search_pc = "start"
    /\ EmbedIdle
    /\ ChunkIdle
    /\ DirIdle
    /\ LoopIdle

\* search(query, num_results, filter_type)
Search ==
    /\ search_pc = "start"
    /\ response' = search(request)
    /\ formatted' = IF Raises(request) THEN <<>> ELSE SearchFormatted(request).results
    /\ intent' = IF request.embedder = "raises" THEN <<>>
                 ELSE <<_process_query(request.query).is_code_query>>
    /\ search_pc' = "searched"
    /\ UNCHANGED <<request, embed_vars, chunk_vars, dir_vars, loop_vars>>

\* _is_code_query(query), called on its own
Classify ==
    /\ search_pc = "start"
    /\ intent' = <<_is_code_query(request.query)>>
    /\ search_pc' = "classified"
    /\ UNCHANGED <<request, formatted, response, embed_vars, chunk_vars, dir_vars, loop_vars>>

SearchNext == Search \/ Classify

SpecSearch == SearchInit /\ [][SearchNext]_vars

(***************************************************************************)
(* SearchEngine: properties                                                *)
(***************************************************************************)
Searched == search_pc = "searched"

Succeeded == Searched /\ "error" \notin DOMAIN response

SuccessShape(r) ==
    /\ {"results", "query", "count"} \subseteq DOMAIN r
    /\ "error" \notin DOMAIN r
    /\ r.query = request.query
    /\ r.count = Len(r.results)

ErrorShape(r) ==
    /\ DOMAIN r = {"error", "query", "results"}
    /\ r.results = <<>>

\* C13: search never raises -- whatever the query, the result count, the
\* filter, and whichever of the embedder, the index and the formatter fails,
\* it returns the success response (results, query, count, with query the
\* query passed in and count the number of results) or the error response
\* (error, query, results = []).
C13_SearchAlwaysAnswers ==
    Searched => SuccessShape(response) \/ ErrorShape(response)

\* A search whose formatter raised, on a query with white space around it.
C13_Witness ==
    /\ Searched
    /\ request.embedder = "ok"
    /\ request.index.fault = "none"
    /\ request.index.results.kind = "no_distances"
    /\ ErrorShape(response)
    /\ response.query = QueryOperator

\* C14: when the index's query call fails, DatabaseManager.query returns the
\* empty parallel arrays and search returns the success shape with
\* results = [] and count = 0.
C14_IndexFailureGivesEmptySuccess ==
    (Searched /\ request.embedder = "ok" /\ request.index.fault = "query")
    => /\ DatabaseManager_query(request.index, request.num_results,
                                Filters(request.filter_type)) = EmptyResults
       /\ response = [results |-> <<>>, query |-> request.query, count |-> 0]

\* The query call failed on an index that had rows to give.
C14_Witness ==
    /\ Searched
    /\ request.embedder = "ok"
    /\ request.index.fault = "query"
    /\ request.index.results.kind = "nested"
    /\ IndexAnswer(request.index.results, request.num_results,
                   Filters(request.filter_type)).rows # <<>>
    /\ response.count = 0

\* C16: every result search returns has a score in [0, 1], for every distance
\* the index delivers and both query intents.
C16_ScoreInUnitInterval ==
    Succeeded => \A k \in 1..Len(response.results) :
                    /\ response.results[k].score >= 0
                    /\ response.results[k].score <= ScoreUnit

\* The request of C17: a code-intent query answered with two candidates, one
\* code and one text, one at distance 0.1 and one at distance 0.3.
TwoCandidates(code_distance, text_distance) ==
    /\ Succeeded
    /\ intent = <<TRUE>>
    /\ Len(request.index.results.rows) = 2
    /\ Len(response.results) = 2
    /\ \E i, j \in 1..2 :
          /\ i # j
          /\ request.index.results.rows[i].metadata.is_dict
          /\ request.index.results.rows[j].metadata.is_dict
          /\ DictGet(request.index.results.rows[i].metadata.fields, "chunk_type", "unknown") = "code"
          /\ DictGet(request.index.results.rows[j].metadata.fields, "chunk_type", "unknown") = "text"
          /\ request.index.results.rows[i].distance = Number(code_distance)
          /\ request.index.results.rows[j].distance = Number(text_distance)

\* The code result is ranked first, with a score above the text result's.
CodeFirst ==
    /\ response.results[1].chunk_type = "code"
    /\ response.results[2].chunk_type = "text"
    /\ response.results[1].score > response.results[2].score

\* C17 as claimed: with distances 0.1 and 0.3, one candidate code and one
\* text, whichever has which, and a code-intent query, the boosted code score
\* strictly exceeds the text score and the code candidate is ranked first.
C17_CodeOutranksText ==
    (TwoCandidates(100, 300) \/ TwoCandidates(300, 100)) => CodeFirst

\* C17 as amended: it is so when the code candidate is the one at distance
\* 0.1 and the text candidate the one at distance 0.3.
C17_NearerCodeOutranksText ==
    TwoCandidates(100, 300) => CodeFirst

\* The index answered with the text candidate before the code candidate.
C17_Witness ==
    /\ TwoCandidates(100, 300)
    /\ request.index.results.rows[1].distance = Number(300)
    /\ response.results[1].snippet = request.index.results.rows[2].document

\* The formatted result a ranked result was made from (documents are distinct).
BaseOf(result) ==
    CHOOSE k \in 1..Len(formatted) : formatted[k].snippet = result.snippet

\* C18: rank_results multiplies a score by 1.2, capped at 1.0, exactly when
\* the chunk_type matches the query intent (code for a code-intent query,
\* text for a concept-intent query); every other score is left unchanged.
C18_BoostOnMatch ==
    (Succeeded /\ response.results # <<>>)
    => /\ Len(response.results) = Len(formatted)
       /\ \A k \in 1..Len(response.results) :
             LET result == response.results[k]
                 base == formatted[BaseOf(result)].score
                 matches == \/ intent[1] /\ result.chunk_type = "code"
                            \/ ~intent[1] /\ result.chunk_type = "text"
                 times12 == (base * 12) \div 10
             IN  result.score = IF matches
                                THEN (IF times12 > ScoreUnit THEN ScoreUnit ELSE times12)
                                ELSE base

\* A response with a capped boost, an uncapped boost and an unknown chunk type.
C18_Witness ==
    /\ Succeeded
    /\ \E a, b, c \in 1..Len(response.results) :
          /\ response.results[a].score = ScoreUnit
          /\ formatted[BaseOf(response.results[a])].score = 900
          /\ response.results[b].score = 840
          /\ formatted[BaseOf(response.results[b])].score = 700
          /\ response.results[c].chunk_type = "unknown"

\* The place a result had in the index's answer.
IndexPlace(result) == BaseOf(result)

\* C19: the list rank_results returns is in non-increasing order of final
\* score, and results of equal final score keep the order they had in the
\* index's answer.
C19_SortedAndStable ==
    Succeeded
    => \A k \in 1..(Len(response.results) - 1) :
          \/ response.results[k].score > response.results[k + 1].score
          \/ /\ response.results[k].score = response.results[k + 1].score
             /\ IndexPlace(response.results[k]) < IndexPlace(response.results[k + 1])

\* The sort moved a result to the front and kept two results of equal score
\* in their order.
C19_Witness ==
    /\ Succeeded
    /\ Len(response.results) = 3
    /\ IndexPlace(response.results[1]) = 3
    /\ response.results[2].score = response.results[3].score

\* C20: _is_code_query is a function of the query alone, with no effect on
\* anything else: it returns true exactly when the lower-cased query contains
\* a keyword of the vocabulary or the query contains a code-syntax fragment;
\* true for "How do I call torch.nn.Linear()?", false for "What is a neural
\* network?".
C20_ClassifierExact ==
    search_pc = "classified"
    => /\ intent[1] = (\/ \E k \in 1..Len(code_indicators) :
                             Contains(StrLower(request.query), code_indicators[k])
                       \/ \E k \in 1..Len(code_patterns) :
                             Contains(request.query, code_patterns[k]))
       /\ request.query = QueryCall => intent[1] = TRUE
       /\ request.query = QueryConcept => intent[1] = FALSE
       /\ response = <<>> /\ formatted = <<>>

\* The query of the claim that is classified as code.
C20_Witness ==
    /\ search_pc = "classified"
    /\ request.query = QueryCall
    /\ intent = <<TRUE>>

(***************************************************************************)
(* EmbeddingGenerator with a failing cache: properties                     *)
(***************************************************************************)
\* The call made by this step meets a cache file it cannot read.
MeetsUnreadable == \E i \in 1..Len(call'.texts) : Unreadable(files, call'.texts[i])

\* What the call returns with the cache disabled: for each text the backend's
\* vector, or the zero vector if the backend call of its batch raises.
WithoutCache ==
    [i \in 1..Len(call'.texts) |->
        IF call'.outcome[IF call'.op = "generate_embeddings"
                         THEN ((i - 1) \div call'.batch_size) + 1 ELSE 1]
        THEN BackendEmbedding(call'.texts[i])
        ELSE ZeroVector]

\* C15: the cache is never a correctness dependency -- when reading a cache
\* entry fails (and writing or deleting one may fail too), generate_embedding
\* and generate_embeddings return the vectors they would return with the
\* cache disabled.  Stated for calls whose backend is up and whose readable
\* entries hold the backend's vectors, so that a hit and a fresh vector agree.
C15_CacheFailureHarmless ==
    [][ ( /\ call = NoCall
          /\ call'.op \in {"generate_embedding", "generate_embeddings"}
          /\ MeetsUnreadable
          /\ \A b \in DOMAIN call'.outcome : call'.outcome[b]
          /\ \A i \in 1..Len(call'.texts) :
                Truthy(call'.lookups[i]) => call'.lookups[i] = BackendEmbedding(call'.texts[i]) )
        => call'.result = WithoutCache ]_vars

--------------------------------------------------------------------------
\* Batch scheduling of generate_embeddings (embedding.py 99-163), read off the
\* events the call issued, in the order it issued them.

\* The offsets at which the batches of the call start.
BatchOffsets == { i \in 0..(Len(call.texts) - 1) : i % call.batch_size = 0 }

\* The places in the trace of the events of one kind for the batch at offset i.
EventsOf(kind, i) ==
    { k \in DOMAIN call.trace : call.trace[k].ev = kind /\ call.trace[k].batch = i }

\* C21: generate_embeddings handles its batches in submission order, one at a
\* time: every event of an earlier batch precedes every event of a later
\* batch, within a batch the backend call precedes the pause, and a pause
\* follows a batch exactly when another batch remains (whatever the batch did:
\* served from the cache, or its backend call failed), never the last batch.
C21_BatchesInOrderWithPauses ==
    Batched =>
        /\ \A k \in DOMAIN call.trace : call.trace[k].batch \in BatchOffsets
        /\ \A k, l \in DOMAIN call.trace :
              k < l => \/ call.trace[k].batch < call.trace[l].batch
                       \/ /\ call.trace[k].batch = call.trace[l].batch
                          /\ call.trace[k].ev = "backend"
                          /\ call.trace[l].ev = "sleep"
        /\ \A i \in BatchOffsets :
              Cardinality(EventsOf("sleep", i))
                 = IF i + call.batch_size < Len(call.texts) THEN 1 ELSE 0

\* A call of two batches whose first batch was served from the cache alone,
\* and one whose first batch failed at the backend; a pause followed each.
C21_Witness ==
    /\ Batched
    /\ Len(call.texts) > call.batch_size
    /\ EventsOf("sleep", 0) # {}
    /\ \/ EventsOf("backend", 0) = {}
       \/ ~call.outcome[1] /\ EventsOf("backend", 0) # {}
    /\ EventsOf("backend", call.batch_size) # {}

\* The texts of the batch at offset i whose look-up found nothing, in batch order.
UncachedOf(i) ==
    LET batch_positions == [j \in 1..(Min(i + call.batch_size, Len(call.texts)) - i) |-> i + j]
        missed == SelectSeq(batch_positions, LAMBDA p : call.lookups[p] = None)
    IN  [k \in 1..Len(missed) |-> call.texts[missed[k]]]

\* C22: for each batch generate_embeddings issues at most one backend call,
\* whose input is exactly the texts of the batch that the cache did not have,
\* in batch order; a batch whose texts are all cached issues none.
C22_BackendGetsUncachedOnly ==
    Batched =>
        \A i \in BatchOffsets :
            IF UncachedOf(i) = <<>>
            THEN EventsOf("backend", i) = {}
            ELSE /\ Cardinality(EventsOf("backend", i)) = 1
                 /\ \A k \in EventsOf("backend", i) : call.trace[k].input = UncachedOf(i)

\* A batch of which one text was cached and the others were sent on, and a
\* batch served by the cache alone, in the same call.
C22_Witness ==
    /\ Batched
    /\ \E i \in BatchOffsets :
          /\ UncachedOf(i) # <<>>
          /\ \E p \in (i + 1)..Min(i + call.batch_size, Len(call.texts)) : call.lookups[p] # None
          /\ EventsOf("backend", i) # {}
    /\ \E i \in BatchOffsets : UncachedOf(i) = <<>>

--------------------------------------------------------------------------
\* What the cache directory holds, whatever the access times: the data of
\* each file.
Contents(fs) == [p \in DOMAIN fs |-> fs[p].data]

\* The backend call that serves position i (from 1) of the call being made.
ServedBy(i) ==
    IF call'.op = "generate_embeddings" THEN ((i - 1) \div call'.batch_size) + 1 ELSE 1

\* C29: the zero fallback vector of a failed backend call is never written to
\* the cache.  A call all of whose backend calls fail leaves the contents of
\* the cache unchanged; in any call, an entry that is new or rewritten holds
\* the backend's vector of a text whose backend call succeeded; and a text
\* that missed the cache and was served by failed backend calls only is
\* still a miss after the call.
C29_FallbackNeverCached ==
    [][ ( /\ call = NoCall
          /\ call'.op \in {"generate_embedding", "generate_embeddings"} )
        => /\ (\A b \in DOMAIN call'.outcome : ~call'.outcome[b])
                 => Contents(files') = Contents(files)
           /\ \A p \in DOMAIN files' :
                 (p \notin DOMAIN files \/ files'[p].data # files[p].data)
                    => \E i \in 1..Len(call'.texts) :
                          /\ call'.outcome[ServedBy(i)]
                          /\ p = _get_cache_path(call'.texts[i])
                          /\ files'[p].data
                                = CacheData(call'.texts[i], BackendEmbedding(call'.texts[i]))
           /\ \A i \in 1..Len(call'.texts) :
                 ( /\ call'.lookups[i] = None
                   /\ \A j \in 1..Len(call'.texts) :
                         call'.texts[j] = call'.texts[i] => ~call'.outcome[ServedBy(j)] )
                    => _get_from_cache(files', call'.texts[i]) = None ]_vars

\* A failed generate_embedding and a generate_embeddings with a failed batch,
\* each against a cache that holds other entries: the caller got the zero
\* vector and the text is still not in the cache.
C29_Witness ==
    /\ use_cache
    /\ DOMAIN files # {}
    /\ call.op \in {"generate_embedding", "generate_embeddings"}
    /\ \E i \in 1..Len(call.texts) :
          /\ call.lookups[i] = None
          /\ call.result[i] = ZeroVector
          /\ _get_from_cache(files, call.texts[i]) = None

--------------------------------------------------------------------------
\* C23: the cache holds at most one entry per distinct text -- every entry
\* is the entry of exactly one text, and a put for a text that already has
\* an entry replaces its value, so that a following get returns the new
\* vector, without increasing the number of entries.
C23_OneEntryPerText ==
    [][ (call = NoCall /\ call'.op = "put")
        => /\ \A p \in DOMAIN files' :
                 Cardinality({ t \in Texts : _get_cache_path(t) = p }) = 1
           /\ _get_cache_path(call'.texts[1]) \in DOMAIN files
                 => /\ Cardinality(DOMAIN files') <= Cardinality(DOMAIN files)
                    /\ _get_from_cache(files', call'.texts[1]) = call'.result[1] ]_vars

--------------------------------------------------------------------------
\* C24: every chunk emitted for a text section has at most chunk_size
\* characters -- an oversized paragraph is subdivided, and an oversized
\* sentence in it is split by character windows, never emitted whole.
C24_TextChunksWithinSize ==
    Done => \A k \in 1..Len(chunks) :
               chunks[k].metadata.chunk_type = "text" => Len(chunks[k].text) <= chunk_size

--------------------------------------------------------------------------
\* A source file that _chunk_sections hands to _chunk_code.
SplitAsCode == Done /\ doc.suffix = "py" /\ 2 * Len(doc.content) > 3 * chunk_size

\* The offsets of the lines of the file that match a boundary pattern.
BoundaryCandidates ==
    LET line_start_positions == LineStartPositions(doc.content)
    IN  { q \in { line_start_positions[k] : k \in 1..Len(line_start_positions) } :
            MatchesAnyPattern(LineAt(doc.content, q)) }

\* The number (from 0) of the line that starts at the offset.
LineOf(q) == IndexOf(LineStartPositions(doc.content), q)

\* C28: _find_code_chunk_points returns strictly increasing offsets, each the
\* start of a line that matches a boundary pattern; the first candidate is
\* kept, a candidate fewer than 5 lines after the last kept point is dropped
\* and any other is kept, so consecutive offsets are at least 5 lines apart;
\* the result is empty when no line matches.
C28_BoundaryPoints ==
    SplitAsCode =>
        LET points == _find_code_chunk_points(doc.content)
            kept == { points[k] : k \in 1..Len(points) }
            candidates == BoundaryCandidates
        IN  /\ \A k \in 1..(Len(points) - 1) :
                  /\ points[k] < points[k + 1]
                  /\ LineOf(points[k + 1]) - LineOf(points[k]) >= 5
            /\ kept \subseteq candidates
            /\ candidates # {} => points[1] = CHOOSE q \in candidates : \A r \in candidates : q <= r
            /\ candidates = {} => points = <<>>
            /\ \A q \in candidates :
                  q \in kept <=> ~\E r \in kept : r < q /\ LineOf(q) - LineOf(r) < 5

\* A file with a candidate that was dropped for being too close to the point
\* kept before it, and a later candidate that was kept.
C28_Witness ==
    /\ SplitAsCode
    /\ Len(_find_code_chunk_points(doc.content)) >= 2
    /\ \E q \in BoundaryCandidates :
          \A k \in 1..Len(_find_code_chunk_points(doc.content)) :
              _find_code_chunk_points(doc.content)[k] # q

--------------------------------------------------------------------------
\* A source file that _chunk_code splits at boundary points.
SplitAtPoints == SplitAsCode /\ _find_code_chunk_points(doc.content) # <<>>

\* C25: when a code section is split at boundary points, every emitted piece,
\* the last one included, has at least chunk_size / 2 characters.
C25_PiecesAtLeastHalf ==
    SplitAtPoints => \A k \in 1..Len(chunks) : 2 * Len(chunks[k].text) >= chunk_size

--------------------------------------------------------------------------
\* C26: when code is split at boundary points, stepping the next start back
\* by the overlap never regresses past the previous start -- for every
\* chunk_size and overlap of the model (overlap above chunk_size / 2 and above
\* chunk_size included) each piece is non-empty and starts at an offset not
\* smaller than that of the piece before it.
C26_StartsNeverRegress ==
    SplitAtPoints =>
        /\ \A k \in 1..Len(chunks) : Len(chunks[k].text) > 0
        /\ \A k \in 1..(Len(chunks) - 1) : StartPos(chunks[k]) <= StartPos(chunks[k + 1])

\* A split with an overlap above chunk_size / 2 in which one step back was
\* held at the start of the code and a later one was taken in full.
C26_Witness ==
    /\ SplitAtPoints
    /\ 2 * overlap > chunk_size
    /\ Len(chunks) >= 3
    /\ StartPos(chunks[2]) = StartPos(chunks[1])
    /\ StartPos(chunks[3]) > StartPos(chunks[2])

--------------------------------------------------------------------------
\* Where each chunk of an overlap-based split lies in the source, as
\* <<start, end>> (end exclusive): the pieces between boundary points are
\* slices of the code, the character windows are those of the loop.
SplitWindows ==
    IF _find_code_chunk_points(doc.content) # <<>>
    THEN [k \in 1..Len(chunks) |->
            <<Pos(chunks[k].text[1]) - 1, Pos(chunks[k].text[Len(chunks[k].text)])>>]
    ELSE CharacterWindows(doc.content, 0, 1, <<>>)

\* C27 as claimed: for consecutive chunks i and i+1 of an overlap-based split,
\* chunk i+1 starts exactly the configured overlap before the source position
\* where chunk i ends.
C27_ExactOverlap ==
    SplitAsCode =>
        \A k \in 1..(Len(SplitWindows) - 1) :
            SplitWindows[k + 1][1] = SplitWindows[k][2] - overlap

\* C27, amended: chunk i+1 starts exactly the overlap before the end of chunk
\* i where there is room for it -- for character windows when that position
\* lies after the start of chunk i, otherwise chunk i+1 starts at the end of
\* chunk i; for pieces between boundary points when that position is not
\* before the start of the code, otherwise chunk i+1 starts at offset 0.  The
\* chunk of a character window is the window without its outer white space.
C27_OverlapWhereRoom ==
    SplitAsCode =>
        LET windows == SplitWindows
            at_points == _find_code_chunk_points(doc.content) # <<>>
        IN  /\ Len(windows) = Len(chunks)
            /\ ~at_points =>
                  \A k \in 1..Len(windows) :
                      chunks[k].text = Strip(Slice(doc.content, windows[k][1], windows[k][2]))
            /\ \A k \in 1..(Len(windows) - 1) :
                  LET back == windows[k][2] - overlap
                  IN  IF at_points
                      THEN windows[k + 1][1] = (IF back >= 0 THEN back ELSE 0)
                      ELSE windows[k + 1][1] = (IF back > windows[k][1] THEN back ELSE windows[k][2])

\* Character windows of which one starts the overlap before the end of the
\* window before it, so that the two share source text.
C27_Witness ==
    /\ SplitAsCode
    /\ _find_code_chunk_points(doc.content) = <<>>
    /\ overlap > 0
    /\ Len(chunks) >= 3
    /\ \E k \in 1..(Len(SplitWindows) - 1) :
          /\ SplitWindows[k + 1][1] = SplitWindows[k][2] - overlap
          /\ Positions(chunks[k].text) \cap Positions(chunks[k + 1].text) # {}

--------------------------------------------------------------------------
\* C30: _character_chunk terminates for every text, every chunk_size >= 1 and
\* every overlap >= 0 (overlap >= chunk_size included): the window start
\* strictly increases on every iteration, the loop ends with the iteration
\* whose window reaches the end of the text, and it does end, having built
\* the chunks the function returns.
C30_CharacterChunkTerminates ==
    /\ [][ loop_chunk_num' # loop_chunk_num
            => /\ loop_start' > loop_start
               /\ loop_end' > loop_start
               /\ loop_end' = Len(loop_text) => loop_pc' = "done" ]_vars
    /\ <>(loop_pc = "done")
    /\ [](loop_pc = "done" => loop_chunks = _character_chunk(loop_text, WindowMetadata))

\* A finished loop of several windows with an overlap of at least chunk_size.
C30_Witness ==
    /\ loop_pc = "done"
    /\ overlap >= chunk_size
    /\ Len(loop_chunks) >= 3
    /\ loop_end = Len(loop_text)

====
